---- MODULE Spec2Model ----
(***************************************************************************)
(* Model of the id-keyed OrgChart engine (src/unnamed/part_000): the       *)
(* Employee objects with their manager back-pointer, reports list and      *)
(* level, the employees map, the root, and the history/future snapshot     *)
(* stacks, with one action per public OrgChart method.                     *)
(*                                                                         *)
(* Objects are kept in a heap keyed by their id: new Employee() draws a    *)
(* fresh uuid, and _loadSnapshot rebuilds every object reachable from the  *)
(* chart, so within one heap an id names exactly one object.  An object    *)
(* removed from the employees map stays in the heap, because other         *)
(* objects may still point at it.                                          *)
(*                                                                         *)
(* A snapshot is the nested document _prepareForExport builds;             *)
(* JSON.stringify / JSON.parse of a document of strings, numbers and       *)
(* arrays is a bijection, so the string on the history stack is            *)
(* represented by the document it encodes.                                 *)
(*                                                                         *)
(* Three further parts follow the same engine where it differs: the        *)
(* single-pass CSV import and the reference-comparing moveSubtree of the   *)
(* sibling variant (src/unnamed/part_001), the latter over a heap keyed by *)
(* object reference, and the name-keyed engine of src/orgchart.js.         *)
(***************************************************************************)
EXTENDS Integers, Sequences, FiniteSets, TLC

\* ------------------------------------------------------------------ bounds
MaxEmp == 4
MaxHist == 5
MaxRows == 3
MaxCsvStart == 2
MaxObj == 2
MaxNkRows == 2
MaxLevel == 2

Ids == 1..MaxEmp
NULL == 0
UnknownId == MaxEmp + 1

VARIABLES heap, employees, root, history, future, nextId, last, preSer, alt

vars == <<heap, employees, root, history, future, nextId, last, preSer, alt>>

\* ------------------------------------------------------------ small helpers
Range(s) == {s[i] : i \in 1..Len(s)}

RECURSIVE FilterOut(_, _)
\* arr.filter((r) => r.id !== id)
FilterOut(s, id) ==
  IF s = <<>> THEN <<>>
  ELSE IF Head(s) = id THEN FilterOut(Tail(s), id)
       ELSE <<Head(s)>> \o FilterOut(Tail(s), id)

\* String.prototype.trim on the strings the model uses
Trim(s) ==
  CASE s = " " -> ""
    [] s = " Bob " -> "Bob"
    [] OTHER -> s

\* String.prototype.toLowerCase on the strings the model uses
ToLower(s) ==
  CASE s = "CEO" -> "ceo"
    [] s = "VP" -> "vp"
    [] s = "Eng" -> "eng"
    [] s = "Ann" -> "ann"
    [] s = "Bob" -> "bob"
    [] s = "Cy" -> "cy"
    [] OTHER -> s

\* The chart as one value, for the operators that model the methods
Chart == [heap |-> heap, employees |-> employees, root |-> root,
          history |-> history, future |-> future, nextId |-> nextId]

EmptyHeap == [i \in {} |-> 0]

\* new OrgChart()
NewOrgChart == [heap |-> EmptyHeap, employees |-> <<>>, root |-> NULL,
                history |-> <<>>, future |-> <<>>, nextId |-> 1]

InStore(c, id) == id \in Range(c.employees)

\* new Employee(name, title, lob, division, dept, email, manager)
NewEmployee(h, f, manager) ==
  [name |-> f.name, title |-> f.title, lob |-> f.lob, division |-> f.division,
   dept |-> f.dept, email |-> f.email, manager |-> manager, reports |-> <<>>,
   level |-> IF manager # NULL THEN h[manager].level + 1 ELSE 0]

\* Employee.addReport: manager.addReport(employee)
addReport(h, m, e) ==
  LET h1 == [h EXCEPT ![e].manager = m]
      h2 == [h1 EXCEPT ![e].level = h1[m].level + 1]
  IN [h2 EXCEPT ![m].reports = Append(@, e)]

\* ------------------------------------------------------------ serializer
RECURSIVE SerializeDiverges(_, _, _)
\* serializeNode recurses for ever (RangeError) when a reports cycle is
\* reachable from the node it starts at
SerializeDiverges(h, n, stack) ==
  \/ n \in stack
  \/ \E i \in 1..Len(h[n].reports) :
       SerializeDiverges(h, h[n].reports[i], stack \cup {n})

RECURSIVE serializeNode(_, _)
serializeNode(h, n) ==
  [id |-> n, name |-> h[n].name, title |-> h[n].title, lob |-> h[n].lob,
   division |-> h[n].division, dept |-> h[n].dept, email |-> h[n].email,
   level |-> h[n].level,
   reports |-> [i \in 1..Len(h[n].reports) |-> serializeNode(h, h[n].reports[i])]]

\* _serializeOrg throws when root is null (TypeError) or when the walk
\* never ends
CanSerialize(c) == c.root # NULL /\ ~SerializeDiverges(c.heap, c.root, {})

\* _prepareForExport
PrepareForExport(c) == serializeNode(c.heap, c.root)

\* _serializeOrg, as a sequence: <<>> when it throws, <<document>> otherwise
SerializeOrg(c) == IF CanSerialize(c) THEN <<PrepareForExport(c)>> ELSE <<>>

RECURSIVE RecreateFromJSON(_, _, _)
RECURSIVE RecreateChildren(_, _, _, _)
\* obj.reports.forEach((child) => this._recreateFromJSON(child, employee))
RecreateChildren(c, kids, i, parent) ==
  IF i > Len(kids) THEN c
  ELSE RecreateChildren(RecreateFromJSON(c, kids[i], parent), kids, i + 1, parent)

\* _recreateFromJSON without "employee.level = obj.level": the level stays
\* the one the constructor derives from the manager
RecreateFromJSONRecalc(c, obj, manager) ==
  LET e  == [name |-> obj.name, title |-> obj.title, lob |-> obj.lob,
             division |-> obj.division, dept |-> obj.dept, email |-> obj.email,
             manager |-> manager, reports |-> <<>>,
             level |-> IF manager # NULL THEN c.heap[manager].level + 1 ELSE 0]
      h1 == [x \in DOMAIN c.heap \cup {obj.id} |->
               IF x = obj.id THEN e ELSE c.heap[x]]
      h2 == IF manager = NULL THEN h1
            ELSE [h1 EXCEPT ![manager].reports = Append(@, obj.id)]
      c1 == [c EXCEPT !.heap = h2,
                      !.employees = IF InStore(c, obj.id) THEN @
                                    ELSE Append(@, obj.id),
                      !.root = IF manager = NULL THEN obj.id ELSE @]
  IN RecreateChildren(c1, obj.reports, 1, obj.id)

\* _recreateFromJSON(obj, manager): the chart after the call
RecreateFromJSON(c, obj, manager) ==
  LET e  == [name |-> obj.name, title |-> obj.title, lob |-> obj.lob,
             division |-> obj.division, dept |-> obj.dept, email |-> obj.email,
             manager |-> manager, reports |-> <<>>, level |-> obj.level]
      h1 == [x \in DOMAIN c.heap \cup {obj.id} |->
               IF x = obj.id THEN e ELSE c.heap[x]]
      h2 == IF manager = NULL THEN h1
            ELSE [h1 EXCEPT ![manager].reports = Append(@, obj.id)]
      c1 == [c EXCEPT !.heap = h2,
                      !.employees = IF InStore(c, obj.id) THEN @
                                    ELSE Append(@, obj.id),
                      !.root = IF manager = NULL THEN obj.id ELSE @]
  IN RecreateChildren(c1, obj.reports, 1, obj.id)

\* _loadSnapshot without "this.employees = {}": the keys of the old map stay
LoadSnapshotKeep(c, snapshot) ==
  RecreateFromJSON(c, snapshot, NULL)

\* _loadSnapshot: employees = {} and every object is created anew, so no
\* object of the old heap is referenced afterwards
LoadSnapshot(c, snapshot) ==
  RecreateFromJSON([c EXCEPT !.employees = <<>>, !.heap = EmptyHeap], snapshot, NULL)

\* ------------------------------------------------------------ undo / redo
\* pushState without "this.future = []"
pushStateKeepFuture(c) ==
  [c EXCEPT !.history = Append(@, PrepareForExport(c))]

\* pushState; only used where CanSerialize holds
pushState(c) ==
  [c EXCEPT !.history = Append(@, PrepareForExport(c)), !.future = <<>>]

\* undo that is refused only when history is empty: below two snapshots it
\* pops the only one and has nothing to reload
undoLastSnapshot(c) ==
  IF Len(c.history) < 1 THEN [c |-> c, res |-> "fail"]
  ELSE LET current == c.history[Len(c.history)]
           hist == SubSeq(c.history, 1, Len(c.history) - 1)
           c1 == [c EXCEPT !.history = hist, !.future = Append(@, current)]
       IN [c |-> IF hist = <<>> THEN c1 ELSE LoadSnapshot(c1, hist[Len(hist)]),
           res |-> "ok"]

\* undo that drops the snapshot it pops instead of pushing it on future
undoDiscard(c) ==
  IF Len(c.history) < 2 THEN [c |-> c, res |-> "fail"]
  ELSE LET hist == SubSeq(c.history, 1, Len(c.history) - 1)
           c1 == [c EXCEPT !.history = hist]
       IN [c |-> LoadSnapshot(c1, hist[Len(hist)]), res |-> "ok"]

undo(c) ==
  IF Len(c.history) < 2 THEN [c |-> c, res |-> "fail"]
  ELSE LET current == c.history[Len(c.history)]
           hist == SubSeq(c.history, 1, Len(c.history) - 1)
           c1 == [c EXCEPT !.history = hist, !.future = Append(@, current)]
       IN [c |-> LoadSnapshot(c1, hist[Len(hist)]), res |-> "ok"]

\* redo that takes the oldest entry of future (shift) instead of the most
\* recently undone one (pop)
redoOldest(c) ==
  IF Len(c.future) = 0 THEN [c |-> c, res |-> "fail"]
  ELSE LET snapshot == c.future[1]
           c1 == [c EXCEPT !.future = Tail(@),
                           !.history = Append(@, snapshot)]
       IN [c |-> LoadSnapshot(c1, snapshot), res |-> "ok"]

redo(c) ==
  IF Len(c.future) = 0 THEN [c |-> c, res |-> "fail"]
  ELSE LET snapshot == c.future[Len(c.future)]
           c1 == [c EXCEPT !.future = SubSeq(@, 1, Len(@) - 1),
                           !.history = Append(@, snapshot)]
       IN [c |-> LoadSnapshot(c1, snapshot), res |-> "ok"]

\* ------------------------------------------------------------ basic methods
\* setRoot(new Employee(..., null)) on a chart
setRoot(c, f) ==
  LET id == c.nextId
      h1 == [x \in DOMAIN c.heap \cup {id} |->
               IF x = id THEN NewEmployee(c.heap, f, NULL) ELSE c.heap[x]]
      c1 == [c EXCEPT !.heap = h1, !.root = id, !.nextId = @ + 1,
                      !.employees = IF InStore(c, id) THEN @ ELSE Append(@, id)]
  IN [c |-> pushState(c1), res |-> "ok"]

\* addEmployee that refuses a managerId that is not a key of the employees
\* map, instead of falling back to the root
addEmployeeStrict(c, f, managerId) ==
  IF c.root = NULL THEN [c |-> c, res |-> "fail"]
  ELSE IF ~InStore(c, managerId) THEN [c |-> c, res |-> "fail"]
  ELSE IF ~CanSerialize(c) THEN [c |-> c, res |-> "throw"]
  ELSE LET c0 == pushState(c)
           id == c0.nextId
           h1 == [x \in DOMAIN c0.heap \cup {id} |->
                    IF x = id THEN NewEmployee(c0.heap, f, managerId) ELSE c0.heap[x]]
           h2 == addReport(h1, managerId, id)
       IN [c |-> [c0 EXCEPT !.heap = h2, !.employees = Append(@, id),
                            !.nextId = @ + 1],
           res |-> "ok"]

addEmployee(c, f, managerId) ==
  IF c.root = NULL THEN [c |-> c, res |-> "fail"]
  ELSE IF ~CanSerialize(c) THEN [c |-> c, res |-> "throw"]
  ELSE LET c0 == pushState(c)
           manager == IF InStore(c0, managerId) THEN managerId ELSE c0.root
           id == c0.nextId
           h1 == [x \in DOMAIN c0.heap \cup {id} |->
                    IF x = id THEN NewEmployee(c0.heap, f, manager) ELSE c0.heap[x]]
           h2 == addReport(h1, manager, id)
       IN [c |-> [c0 EXCEPT !.heap = h2, !.employees = Append(@, id),
                            !.nextId = @ + 1],
           res |-> "ok"]

RECURSIVE ReassignReports(_, _, _, _)
\* employee.reports.forEach((r) => newManager.addReport(r)); forEach visits
\* the indices below the length the array had when it started
ReassignReports(h, rs, i, newManager) ==
  IF i > Len(rs) THEN h
  ELSE ReassignReports(addReport(h, newManager, rs[i]), rs, i + 1, newManager)

\* employee.reports.forEach((r) => { r.manager = null; })
DetachReports(h, rs) ==
  [x \in DOMAIN h |-> IF x \in Range(rs) THEN [h[x] EXCEPT !.manager = NULL]
                      ELSE h[x]]

\* removeEmployee without the check that blocks removing the root
removeEmployeeAny(c, employeeId, newManagerId) ==
  IF ~InStore(c, employeeId) THEN [c |-> c, res |-> "fail"]
  ELSE IF ~CanSerialize(c) THEN [c |-> c, res |-> "throw"]
  ELSE LET c0 == pushState(c)
           rs == c0.heap[employeeId].reports
           h1 == IF newManagerId # NULL /\ InStore(c0, newManagerId)
                 THEN ReassignReports(c0.heap, rs, 1, newManagerId)
                 ELSE DetachReports(c0.heap, rs)
           m  == h1[employeeId].manager
           h2 == IF m # NULL
                 THEN [h1 EXCEPT ![m].reports = FilterOut(@, employeeId)]
                 ELSE h1
       IN [c |-> [c0 EXCEPT !.heap = h2,
                            !.employees = FilterOut(@, employeeId)],
           res |-> "ok"]

removeEmployee(c, employeeId, newManagerId) ==
  IF c.root # NULL /\ c.root = employeeId THEN [c |-> c, res |-> "fail"]
  ELSE IF ~InStore(c, employeeId) THEN [c |-> c, res |-> "fail"]
  ELSE IF ~CanSerialize(c) THEN [c |-> c, res |-> "throw"]
  ELSE LET c0 == pushState(c)
           rs == c0.heap[employeeId].reports
           h1 == IF newManagerId # NULL /\ InStore(c0, newManagerId)
                 THEN ReassignReports(c0.heap, rs, 1, newManagerId)
                 ELSE DetachReports(c0.heap, rs)
           m  == h1[employeeId].manager
           h2 == IF m # NULL
                 THEN [h1 EXCEPT ![m].reports = FilterOut(@, employeeId)]
                 ELSE h1
       IN [c |-> [c0 EXCEPT !.heap = h2,
                            !.employees = FilterOut(@, employeeId)],
           res |-> "ok"]

\* newData.x.trim() in place of newData.x.trim() || employee.x
EditFieldOverwrite(cur, p) ==
  IF p = <<>> THEN cur ELSE Trim(p[1])

\* newData.x.trim() || employee.x, when newData.x is a string; a field of
\* the patch is <<>> when absent and <<s>> when it is the string s
EditField(cur, p) ==
  IF p = <<>> THEN cur
  ELSE IF Trim(p[1]) # "" THEN Trim(p[1]) ELSE cur

\* editEmployee that calls pushState after the fields are assigned, not
\* before
editEmployeeSnapshotAfter(c, employeeId, newData) ==
  IF ~InStore(c, employeeId) THEN [c |-> c, res |-> "fail"]
  ELSE IF ~CanSerialize(c) THEN [c |-> c, res |-> "throw"]
  ELSE LET e  == c.heap[employeeId]
           e1 == [e EXCEPT !.name = EditField(@, newData.name),
                           !.title = EditField(@, newData.title),
                           !.lob = EditField(@, newData.lob),
                           !.division = EditField(@, newData.division),
                           !.dept = EditField(@, newData.dept),
                           !.email = EditField(@, newData.email)]
       IN [c |-> pushState([c EXCEPT !.heap[employeeId] = e1]), res |-> "ok"]

editEmployee(c, employeeId, newData) ==
  IF ~InStore(c, employeeId) THEN [c |-> c, res |-> "fail"]
  ELSE IF ~CanSerialize(c) THEN [c |-> c, res |-> "throw"]
  ELSE LET c0 == pushState(c)
           e  == c0.heap[employeeId]
           e1 == [e EXCEPT !.name = EditField(@, newData.name),
                           !.title = EditField(@, newData.title),
                           !.lob = EditField(@, newData.lob),
                           !.division = EditField(@, newData.division),
                           !.dept = EditField(@, newData.dept),
                           !.email = EditField(@, newData.email)]
       IN [c |-> [c0 EXCEPT !.heap[employeeId] = e1], res |-> "ok"]

RECURSIVE IsDescendant(_, _, _, _)
RECURSIVE IsDescendantFrom(_, _, _, _, _)
\* the for loop of _isDescendant over root.reports, from index i on
IsDescendantFrom(h, rs, i, candidate, stack) ==
  IF i > Len(rs) THEN "false"
  ELSE IF rs[i] = candidate THEN "true"
  ELSE LET sub == IsDescendant(h, rs[i], candidate, stack)
       IN IF sub = "false"
          THEN IsDescendantFrom(h, rs, i + 1, candidate, stack)
          ELSE sub

\* _isDescendant(root, candidate): "true", "false", or "diverges" when the
\* recursion re-enters a call that is still running (the same call would
\* then repeat for ever: RangeError, maximum call stack size exceeded)
IsDescendant(h, n, candidate, stack) ==
  IF n \in stack THEN "diverges"
  ELSE IsDescendantFrom(h, h[n].reports, 1, candidate, stack \cup {n})

RECURSIVE UpdateLevels(_, _, _)
RECURSIVE UpdateLevelsFrom(_, _, _, _)
UpdateLevelsFrom(h, rs, i, level) ==
  IF i > Len(rs) THEN h
  ELSE UpdateLevelsFrom(UpdateLevels(h, rs[i], level), rs, i + 1, level)

\* _updateLevels(node, level)
UpdateLevels(h, node, level) ==
  UpdateLevelsFrom([h EXCEPT ![node].level = level], h[node].reports, 1, level + 1)

\* moveSubtree that takes the root as the new manager when newManagerId is
\* no key of the employees map, as addEmployee does
moveSubtreeDefaultRoot(c, employeeId, newManagerId) ==
  LET nm == IF InStore(c, newManagerId) THEN newManagerId ELSE c.root
  IN IF ~InStore(c, employeeId) THEN [c |-> c, res |-> "fail"]
     ELSE IF employeeId = c.root THEN [c |-> c, res |-> "fail"]
     ELSE IF employeeId = nm THEN [c |-> c, res |-> "fail"]
     ELSE LET d == IsDescendant(c.heap, employeeId, nm, {})
          IN IF d = "true" THEN [c |-> c, res |-> "fail"]
             ELSE IF d = "diverges" THEN [c |-> c, res |-> "throw"]
             ELSE IF ~CanSerialize(c) THEN [c |-> c, res |-> "throw"]
             ELSE LET c0 == pushState(c)
                      m  == c0.heap[employeeId].manager
                      h1 == IF m # NULL
                            THEN [c0.heap EXCEPT ![m].reports = FilterOut(@, employeeId)]
                            ELSE c0.heap
                      h2 == addReport(h1, nm, employeeId)
                      h3 == UpdateLevels(h2, employeeId, h2[nm].level + 1)
                  IN [c |-> [c0 EXCEPT !.heap = h3], res |-> "ok"]

\* moveSubtree without step 3, the call of _updateLevels: only the level
\* that addReport sets changes
RECURSIVE PathFrom(_, _, _, _)
\* the while loop of getPath: current is unshifted onto path and replaced by
\* its manager, until it is null; when the manager links come back to an
\* object already on the path the loop never ends (path grows until the
\* engine gives up)
PathFrom(h, current, path, seen) ==
  IF current = NULL THEN [res |-> "ok", path |-> path]
  ELSE IF current \in seen THEN [res |-> "diverges", path |-> path]
  ELSE PathFrom(h, h[current].manager, <<current>> \o path, seen \cup {current})

\* getPath(employeeId): [] for an id that is no key of the employees map
getPath(c, employeeId) ==
  IF ~InStore(c, employeeId) THEN [res |-> "ok", path |-> <<>>]
  ELSE PathFrom(c.heap, employeeId, <<>>, {})

moveSubtreeNoRelevel(c, employeeId, newManagerId) ==
  IF ~InStore(c, employeeId) \/ ~InStore(c, newManagerId)
  THEN [c |-> c, res |-> "fail"]
  ELSE IF employeeId = c.root THEN [c |-> c, res |-> "fail"]
  ELSE IF employeeId = newManagerId THEN [c |-> c, res |-> "fail"]
  ELSE LET d == IsDescendant(c.heap, employeeId, newManagerId, {})
       IN IF d = "true" THEN [c |-> c, res |-> "fail"]
          ELSE IF d = "diverges" THEN [c |-> c, res |-> "throw"]
          ELSE IF ~CanSerialize(c) THEN [c |-> c, res |-> "throw"]
          ELSE LET c0 == pushState(c)
                   m  == c0.heap[employeeId].manager
                   h1 == IF m # NULL
                         THEN [c0.heap EXCEPT ![m].reports = FilterOut(@, employeeId)]
                         ELSE c0.heap
                   h2 == addReport(h1, newManagerId, employeeId)
               IN [c |-> [c0 EXCEPT !.heap = h2], res |-> "ok"]

\* moveSubtree without the filter that takes the employee out of the old
\* manager's reports
moveSubtreeNoDetach(c, employeeId, newManagerId) ==
  IF ~InStore(c, employeeId) \/ ~InStore(c, newManagerId)
  THEN [c |-> c, res |-> "fail"]
  ELSE IF employeeId = c.root THEN [c |-> c, res |-> "fail"]
  ELSE IF employeeId = newManagerId THEN [c |-> c, res |-> "fail"]
  ELSE LET d == IsDescendant(c.heap, employeeId, newManagerId, {})
       IN IF d = "true" THEN [c |-> c, res |-> "fail"]
          ELSE IF d = "diverges" THEN [c |-> c, res |-> "throw"]
          ELSE IF ~CanSerialize(c) THEN [c |-> c, res |-> "throw"]
          ELSE LET c0 == pushState(c)
                   h2 == addReport(c0.heap, newManagerId, employeeId)
                   h3 == UpdateLevels(h2, employeeId, h2[newManagerId].level + 1)
               IN [c |-> [c0 EXCEPT !.heap = h3], res |-> "ok"]

\* moveSubtree that takes its snapshot before the root, self and descendant
\* checks instead of after them
moveSubtreeSnapshotFirst(c, employeeId, newManagerId) ==
  IF ~InStore(c, employeeId) \/ ~InStore(c, newManagerId)
  THEN [c |-> c, res |-> "fail"]
  ELSE IF ~CanSerialize(c) THEN [c |-> c, res |-> "throw"]
  ELSE LET c0 == pushState(c)
       IN IF employeeId = c.root THEN [c |-> c0, res |-> "fail"]
          ELSE IF employeeId = newManagerId THEN [c |-> c0, res |-> "fail"]
          ELSE LET d == IsDescendant(c.heap, employeeId, newManagerId, {})
               IN IF d = "true" THEN [c |-> c0, res |-> "fail"]
                  ELSE IF d = "diverges" THEN [c |-> c0, res |-> "throw"]
                  ELSE LET m  == c0.heap[employeeId].manager
                           h1 == IF m # NULL
                                 THEN [c0.heap EXCEPT
                                         ![m].reports = FilterOut(@, employeeId)]
                                 ELSE c0.heap
                           h2 == addReport(h1, newManagerId, employeeId)
                           h3 == UpdateLevels(h2, employeeId,
                                              h2[newManagerId].level + 1)
                       IN [c |-> [c0 EXCEPT !.heap = h3], res |-> "ok"]

moveSubtree(c, employeeId, newManagerId) ==
  IF ~InStore(c, employeeId) \/ ~InStore(c, newManagerId)
  THEN [c |-> c, res |-> "fail"]
  ELSE IF employeeId = c.root THEN [c |-> c, res |-> "fail"]
  ELSE IF employeeId = newManagerId THEN [c |-> c, res |-> "fail"]
  ELSE LET d == IsDescendant(c.heap, employeeId, newManagerId, {})
       IN IF d = "true" THEN [c |-> c, res |-> "fail"]
          ELSE IF d = "diverges" THEN [c |-> c, res |-> "throw"]
          ELSE IF ~CanSerialize(c) THEN [c |-> c, res |-> "throw"]
          ELSE LET c0 == pushState(c)
                   m  == c0.heap[employeeId].manager
                   h1 == IF m # NULL
                         THEN [c0.heap EXCEPT ![m].reports = FilterOut(@, employeeId)]
                         ELSE c0.heap
                   h2 == addReport(h1, newManagerId, employeeId)
                   h3 == UpdateLevels(h2, employeeId, h2[newManagerId].level + 1)
               IN [c |-> [c0 EXCEPT !.heap = h3], res |-> "ok"]

\* ------------------------------------------------------------ JSON import
\* A file is [kind, doc, nullAt, nullPos]: kind "unreadable" (readFile
\* rejects), "notjson" (JSON.parse throws) or "json"; doc is <<>> for the
\* text null and <<d>> for a document d; when nullAt is not NULL, the reports
\* array of the node with id nullAt has one more entry, null, at index
\* nullPos, before the entry that is there in d.
RECURSIVE RecreateOrThrow(_, _, _, _, _)
RECURSIVE RecreateChildrenOrThrow(_, _, _, _, _, _)
\* obj.reports.forEach over a reports array that may hold the null entry:
\* _recreateFromJSON(null, employee) throws a TypeError at obj.name, and the
\* throw ends every enclosing forEach; st is [c, thrown]
RecreateChildrenOrThrow(st, kids, i, parent, nullAt, nullPos) ==
  IF st.thrown THEN st
  ELSE IF parent = nullAt /\ i = nullPos THEN [st EXCEPT !.thrown = TRUE]
  ELSE IF i > Len(kids) THEN st
  ELSE RecreateChildrenOrThrow(
         RecreateOrThrow(st, kids[i], parent, nullAt, nullPos),
         kids, i + 1, parent, nullAt, nullPos)

\* _recreateFromJSON on such a document without "employee.level =
\* obj.level": the level stays the one the constructor derives from the
\* manager
RecreateOrThrowRecalc(st, obj, manager, nullAt, nullPos) ==
  IF st.thrown THEN st
  ELSE LET c  == st.c
           e  == [name |-> obj.name, title |-> obj.title, lob |-> obj.lob,
                  division |-> obj.division, dept |-> obj.dept,
                  email |-> obj.email, manager |-> manager, reports |-> <<>>,
                  level |-> IF manager # NULL THEN c.heap[manager].level + 1
                            ELSE 0]
           h1 == [x \in DOMAIN c.heap \cup {obj.id} |->
                    IF x = obj.id THEN e ELSE c.heap[x]]
           h2 == IF manager = NULL THEN h1
                 ELSE [h1 EXCEPT ![manager].reports = Append(@, obj.id)]
           c1 == [c EXCEPT !.heap = h2,
                           !.employees = IF InStore(c, obj.id) THEN @
                                         ELSE Append(@, obj.id),
                           !.root = IF manager = NULL THEN obj.id ELSE @]
       IN RecreateChildrenOrThrow([c |-> c1, thrown |-> FALSE], obj.reports, 1,
                                  obj.id, nullAt, nullPos)

\* _recreateFromJSON(obj, manager) on a document that may hold a null entry
RecreateOrThrow(st, obj, manager, nullAt, nullPos) ==
  IF st.thrown THEN st
  ELSE LET c  == st.c
           e  == [name |-> obj.name, title |-> obj.title, lob |-> obj.lob,
                  division |-> obj.division, dept |-> obj.dept,
                  email |-> obj.email, manager |-> manager, reports |-> <<>>,
                  level |-> obj.level]
           h1 == [x \in DOMAIN c.heap \cup {obj.id} |->
                    IF x = obj.id THEN e ELSE c.heap[x]]
           h2 == IF manager = NULL THEN h1
                 ELSE [h1 EXCEPT ![manager].reports = Append(@, obj.id)]
           c1 == [c EXCEPT !.heap = h2,
                           !.employees = IF InStore(c, obj.id) THEN @
                                         ELSE Append(@, obj.id),
                           !.root = IF manager = NULL THEN obj.id ELSE @]
       IN RecreateChildrenOrThrow([c |-> c1, thrown |-> FALSE], obj.reports, 1,
                                  obj.id, nullAt, nullPos)

\* importFromJSON(filename): every throw is caught and the call returns
\* false, with whatever had been assigned by then.  "this.employees = {}"
\* comes before _recreateFromJSON; the first node of a document replaces
\* this.root, after which no object of the old tree is referenced (the heap
\* then holds the new objects only, as in _loadSnapshot)
importFromJSON(c, file) ==
  IF file.kind # "json" THEN [c |-> c, res |-> "fail"]
  ELSE LET c1 == [c EXCEPT !.employees = <<>>]
       IN IF file.doc = <<>> THEN [c |-> c1, res |-> "fail"]
          ELSE LET st == RecreateOrThrow(
                           [c |-> [c1 EXCEPT !.heap = EmptyHeap],
                            thrown |-> FALSE],
                           file.doc[1], NULL, file.nullAt, file.nullPos)
               IN IF st.thrown THEN [c |-> st.c, res |-> "fail"]
                  ELSE [c |-> pushState(st.c), res |-> "ok"]

\* ------------------------------------------------------------ CSV import
\* the normalized row: every column trimmed, '' when missing
NormalizeRow(row) ==
  [name |-> Trim(row.name), title |-> Trim(row.title),
   managerName |-> Trim(row.managerName), lob |-> Trim(row.lob),
   division |-> Trim(row.division), dept |-> Trim(row.dept),
   email |-> Trim(row.email)]

\* pending.splice(i, 1)
RemoveAt(s, i) == SubSeq(s, 1, i - 1) \o SubSeq(s, i + 1, Len(s))

\* Object.values(this.employees).find((emp) => emp.name.toLowerCase() ===
\* managerName.toLowerCase()): the id of the first match in insertion order,
\* NULL when there is none
FindByName(c, managerName) ==
  LET hits == {k \in 1..Len(c.employees) :
                 ToLower(c.heap[c.employees[k]].name) = ToLower(managerName)}
  IN IF hits = {} THEN NULL
     ELSE c.employees[CHOOSE k \in hits : \A j \in hits : k <= j]

RECURSIVE CsvPassRetryUnderRoot(_, _)
\* the for loop with a row whose manager is not found kept for the next
\* pass without its manager reference, and counted as progress
CsvPassRetryUnderRoot(st, i) ==
  IF i < 1 THEN st
  ELSE LET row == st.pending[i]
           manager == FindByName(st.c, row.managerName)
       IN IF row.name = "" \/ row.title = ""
          THEN CsvPassRetryUnderRoot([st EXCEPT !.pending = RemoveAt(@, i)], i - 1)
          ELSE IF row.managerName # "" /\ manager = NULL
          THEN CsvPassRetryUnderRoot(
                 [st EXCEPT !.pending[i].managerName = "", !.addedAny = TRUE],
                 i - 1)
          ELSE LET managerId == IF row.managerName = "" \/ manager = NULL
                                THEN st.c.root ELSE manager
                   f == [name |-> row.name, title |-> row.title, lob |-> row.lob,
                         division |-> row.division, dept |-> row.dept,
                         email |-> row.email]
               IN CsvPassRetryUnderRoot(
                    [c |-> addEmployee(st.c, f, managerId).c,
                     pending |-> RemoveAt(st.pending, i),
                     addedAny |-> TRUE], i - 1)

RECURSIVE CsvPass(_, _)
\* one run of the for loop, from index i down to 1, over the state
\* [c, pending, addedAny] of the import; addEmployee cannot throw here, since
\* pushState has just succeeded on this chart and the import only adds leaves
CsvPass(st, i) ==
  IF i < 1 THEN st
  ELSE LET row == st.pending[i]
           manager == FindByName(st.c, row.managerName)
       IN IF row.name = "" \/ row.title = ""
          THEN CsvPass([st EXCEPT !.pending = RemoveAt(@, i)], i - 1)
          ELSE IF row.managerName # "" /\ manager = NULL
          THEN CsvPass(st, i - 1)
          ELSE LET managerId == IF row.managerName = "" \/ manager = NULL
                                THEN st.c.root ELSE manager
                   f == [name |-> row.name, title |-> row.title, lob |-> row.lob,
                         division |-> row.division, dept |-> row.dept,
                         email |-> row.email]
               IN CsvPass([c |-> addEmployee(st.c, f, managerId).c,
                           pending |-> RemoveAt(st.pending, i),
                           addedAny |-> TRUE], i - 1)

\* the import with a single pass over the rows and no retry
CsvLoopOnce(st) ==
  IF Len(st.pending) > 0 /\ st.addedAny
  THEN CsvPass([st EXCEPT !.addedAny = FALSE], Len(st.pending))
  ELSE st

RECURSIVE CsvLoop(_)
\* while (pending.length && addedAny) { addedAny = false; for ... }
CsvLoop(st) ==
  IF Len(st.pending) > 0 /\ st.addedAny
  THEN CsvLoop(CsvPass([st EXCEPT !.addedAny = FALSE], Len(st.pending)))
  ELSE st

\* the import's state when it enters the while loop
CsvStart(c, rows) ==
  [c |-> pushState(c),
   pending |-> [i \in 1..Len(rows) |-> NormalizeRow(rows[i])],
   addedAny |-> TRUE]

RECURSIVE CsvPassSizes(_)
\* pending.length at the start of every pass of the while loop, and when the
\* loop is left
CsvPassSizes(st) ==
  IF Len(st.pending) > 0 /\ st.addedAny
  THEN <<Len(st.pending)>>
         \o CsvPassSizes(CsvPass([st EXCEPT !.addedAny = FALSE], Len(st.pending)))
  ELSE <<Len(st.pending)>>

\* the sizes for a call of importFromCSV: none when the loop is not reached
ImportPassSizes(c, rows) ==
  IF Len(rows) = 0 \/ ~CanSerialize(c) THEN <<>> ELSE CsvPassSizes(CsvStart(c, rows))

\* importFromCSV that leaves one snapshot for the whole import: the one taken
\* before the loop
importFromCSVOneSnapshot(c, rows) ==
  IF Len(rows) = 0 THEN [c |-> c, res |-> "fail", pending |-> <<>>]
  ELSE IF ~CanSerialize(c) THEN [c |-> c, res |-> "fail", pending |-> <<>>]
  ELSE LET c0 == pushState(c)
           st == CsvLoop([c |-> c0,
                          pending |-> [i \in 1..Len(rows) |-> NormalizeRow(rows[i])],
                          addedAny |-> TRUE])
       IN [c |-> [st.c EXCEPT !.history = c0.history], res |-> "ok",
           pending |-> st.pending]

\* importFromCSV on the parsed rows of the file; a throw of pushState is
\* caught and the call returns false
importFromCSV(c, rows) ==
  IF Len(rows) = 0 THEN [c |-> c, res |-> "fail", pending |-> <<>>]
  ELSE IF ~CanSerialize(c) THEN [c |-> c, res |-> "fail", pending |-> <<>>]
  ELSE LET st == CsvLoop([c |-> pushState(c),
                          pending |-> [i \in 1..Len(rows) |-> NormalizeRow(rows[i])],
                          addedAny |-> TRUE])
       IN [c |-> st.c, res |-> "ok", pending |-> st.pending]

\* ------------------------------------------------------------ CSV import, single pass
\* The sibling variant of the engine (src/unnamed/part_001) imports in one
\* forEach over the rows.  Its pushState, addEmployee and the manager lookup
\* by lower-cased name are the same code as in part_000, so addEmployee,
\* NormalizeRow and FindByName stand for them here.
RECURSIVE CsvForEach(_, _, _)
\* rows.forEach((row) => { ... }) from index i on: a row without name or
\* title is skipped; managerId stays null when no member has the manager's
\* name, and addEmployee then takes the root
CsvForEach(c, rows, i) ==
  IF i > Len(rows) THEN c
  ELSE LET row == NormalizeRow(rows[i])
           managerId == FindByName(c, row.managerName)
           f == [name |-> row.name, title |-> row.title, lob |-> row.lob,
                 division |-> row.division, dept |-> row.dept,
                 email |-> row.email]
       IN IF row.name = "" \/ row.title = ""
          THEN CsvForEach(c, rows, i + 1)
          ELSE CsvForEach(addEmployee(c, f, managerId).c, rows, i + 1)

\* importFromCSV of part_001; a throw of pushState is caught and the call
\* returns false
importFromCSVSinglePass(c, rows) ==
  IF Len(rows) = 0 THEN [c |-> c, res |-> "fail"]
  ELSE IF ~CanSerialize(c) THEN [c |-> c, res |-> "fail"]
  ELSE [c |-> CsvForEach(pushState(c), rows, 1), res |-> "ok"]

\* ------------------------------------------------------------ inputs
Fields(name, title) ==
  [name |-> name, title |-> title, lob |-> "", division |-> "", dept |-> "",
   email |-> ""]

\* what the operator types for the root and for a new employee
RootFields == {Fields("CEO", "Chief")}
AddFields == {Fields("Ann", "Eng")}

NoPatch == [name |-> <<>>, title |-> <<>>, lob |-> <<>>, division |-> <<>>,
            dept |-> <<>>, email |-> <<>>]

\* the edits offered: a rename with surrounding blanks and a blank title,
\* and a patch of blank strings only
EditPatches ==
  {[NoPatch EXCEPT !.name = <<" Bob ">>, !.title = <<" ">>],
   [NoPatch EXCEPT !.name = <<" ">>, !.email = <<"">>]}

Store == Range(employees)

\* ids a caller may pass: the keys of the employees map, and one id that is
\* not a key
AnyId == Range(employees) \cup {UnknownId}

Mutations == {"addEmployee", "editEmployee", "removeEmployee", "moveSubtree"}

\* ------------------------------------------------------------ actions
Init ==
  /\ heap = NewOrgChart.heap
  /\ employees = NewOrgChart.employees
  /\ root = NewOrgChart.root
  /\ history = NewOrgChart.history
  /\ future = NewOrgChart.future
  /\ nextId = NewOrgChart.nextId
  /\ last = [op |-> "new", res |-> "ok", id |-> NULL, mgr |-> NULL,
             prevMut |-> FALSE, undoPhase |-> 0, stacks |-> <<>>,
             patch |-> NoPatch]
  /\ preSer = <<>>
  /\ alt = <<>>

\* where a call stands after an undo: 1 for a successful undo, 2 for a
\* successful mutation right after one, 3 for the call right after that
\* mutation, 0 otherwise
UndoPhase(op, res) ==
  IF op = "undo" /\ res = "ok" THEN 1
  ELSE IF last.undoPhase = 1 /\ op \in Mutations /\ res = "ok" THEN 2
  ELSE IF last.undoPhase = 2 THEN 3
  ELSE 0

\* the step of one call: its outcome r, and the record of the call with the
\* patch it was given and, for undo, the two stacks it found
StepWith(op, r, id, mgr, patch) ==
  /\ heap' = r.c.heap
  /\ employees' = r.c.employees
  /\ root' = r.c.root
  /\ history' = r.c.history
  /\ future' = r.c.future
  /\ nextId' = r.c.nextId
  /\ last' = [op |-> op, res |-> r.res, id |-> id, mgr |-> mgr,
              prevMut |-> last.op \in Mutations /\ last.res = "ok",
              undoPhase |-> UndoPhase(op, r.res), patch |-> patch,
              stacks |-> IF op = "undo" THEN <<history, future>> ELSE <<>>]
  /\ preSer' = SerializeOrg(Chart)
  /\ alt' = alt

\* the step of a call that takes no patch
Step(op, r, id, mgr) == StepWith(op, r, id, mgr, NoPatch)

\* createNewOrg: a new OrgChart, then setRoot
SetRoot ==
  /\ employees = <<>>
  /\ \E f \in RootFields : Step("setRoot", setRoot(Chart, f), nextId, NULL)

\* createNewOrg that calls setRoot on the chart in use, without
\* "this.orgChart = new OrgChart()"
CreateNewOrgNoReset ==
  /\ employees # <<>>
  /\ nextId <= MaxEmp
  /\ \E f \in RootFields : Step("setRoot", setRoot(Chart, f), nextId, NULL)

\* createNewOrg on a chart that has members: "Reset the org", a new
\* OrgChart takes the place of the old one, then setRoot; the new Employee
\* draws a fresh id
CreateNewOrg ==
  /\ employees # <<>>
  /\ nextId <= MaxEmp
  /\ \E f \in RootFields :
       Step("setRoot", setRoot([NewOrgChart EXCEPT !.nextId = nextId], f),
            nextId, NULL)

AddEmployee ==
  /\ nextId <= MaxEmp
  /\ Len(history) < MaxHist
  /\ \E f \in AddFields, m \in AnyId \cup {NULL} :
       Step("addEmployee", addEmployee(Chart, f, m), nextId, m)

RemoveEmployee ==
  /\ Len(history) < MaxHist
  /\ \E id \in AnyId, m \in AnyId \cup {NULL} :
       Step("removeEmployee", removeEmployee(Chart, id, m), id, m)

EditEmployee ==
  /\ Len(history) < MaxHist
  /\ \E id \in AnyId, p \in EditPatches :
       StepWith("editEmployee", editEmployee(Chart, id, p), id, NULL, p)

MoveSubtree ==
  /\ Len(history) < MaxHist
  /\ \E id \in AnyId, m \in AnyId :
       Step("moveSubtree", moveSubtree(Chart, id, m), id, m)

Undo == Step("undo", undo(Chart), NULL, NULL)

Redo == Step("redo", redo(Chart), NULL, NULL)

Next ==
  \/ SetRoot
  \/ AddEmployee
  \/ RemoveEmployee
  \/ EditEmployee
  \/ MoveSubtree
  \/ Undo
  \/ Redo

Spec == Init /\ [][Next]_vars

\* the application with "Create new org chart" chosen at any time, and the
\* calls that add members and walk the history of the chart in use
NextNew ==
  \/ SetRoot
  \/ CreateNewOrg
  \/ AddEmployee
  \/ Undo
  \/ Redo

SpecNew == Init /\ [][NextNew]_vars

\* ------------------------------------------------------------ bulk import runs
CsvRow(name, title, managerName) ==
  [name |-> name, title |-> title, managerName |-> managerName, lob |-> "",
   division |-> "", dept |-> "", email |-> ""]

\* the rows a file may hold, in a fixed order: four names, two of which
\* differ in letter case only, each with no manager or with a manager by one
\* of the names; a row whose manager nobody is named; a row with a blank title
CsvNames == <<"Ann", "ann", "Bob", "Cy">>
CsvManagers == <<"", "Ann", "Bob", "Cy">>
CsvRowList ==
  [k \in 1..(Len(CsvNames) * Len(CsvManagers)) |->
     CsvRow(CsvNames[((k - 1) \div Len(CsvManagers)) + 1], "Mgr",
            CsvManagers[((k - 1) % Len(CsvManagers)) + 1])]
    \o <<CsvRow("Bob", "Mgr", "Zed"), CsvRow("Bob", " ", "")>>

\* the sets of up to MaxRows rows, no two with the same name, each listed in
\* the order of CsvRowList
CsvRowSets ==
  {[i \in 1..Len(f) |-> CsvRowList[f[i]]] :
     f \in {g \in UNION {[1..n -> 1..Len(CsvRowList)] : n \in 1..MaxRows} :
              \A i, j \in 1..Len(g) :
                i < j => /\ g[i] < g[j]
                         /\ CsvRowList[g[i]].name # CsvRowList[g[j]].name}}

\* the same rows in another order
Reorder(rows, p) == [i \in 1..Len(rows) |-> rows[p[i]]]

\* a chart of at most MaxCsvStart members is built before the import
CsvAddEmployee ==
  /\ alt = <<>>
  /\ nextId <= MaxCsvStart
  /\ \E f \in AddFields, m \in Store :
       Step("addEmployee", addEmployee(Chart, f, m), nextId, m)

\* importFromCSV(filename), the last call of the run, on a file that holds
\* the rows of a set in any order; alt records the rows, what the same
\* chart becomes when the same rows come in the order of CsvRowList (rows2),
\* the rows left in pending when the loop ends (the count the call reports
\* as not imported), and the employees map and root before the call
ImportFromCSV ==
  /\ alt = <<>>
  /\ \E base \in CsvRowSets :
       \E p \in Permutations(1..Len(base)) :
         LET rows == Reorder(base, p)
             r == importFromCSV(Chart, rows)
             r2 == importFromCSV(Chart, base)
         IN /\ heap' = r.c.heap
            /\ employees' = r.c.employees
            /\ root' = r.c.root
            /\ history' = r.c.history
            /\ future' = r.c.future
            /\ nextId' = r.c.nextId
            /\ last' = [op |-> "importFromCSV", res |-> r.res, id |-> NULL,
                        mgr |-> NULL, prevMut |-> FALSE, undoPhase |-> 0,
                        stacks |-> <<>>,
                        patch |-> NoPatch]
            /\ preSer' = SerializeOrg(Chart)
            /\ alt' = <<[rows |-> rows, rows2 |-> base,
                         res2 |-> r2.res, heap2 |-> r2.c.heap,
                         employees2 |-> r2.c.employees,
                         pending |-> r.pending, before |-> employees,
                         root0 |-> root, history0 |-> history,
                         sizes |-> ImportPassSizes(Chart, rows)]>>

\* createNewOrg, before the import
CsvSetRoot == alt = <<>> /\ SetRoot

NextCSV ==
  \/ CsvSetRoot
  \/ CsvAddEmployee
  \/ ImportFromCSV

SpecCSV == Init /\ [][NextCSV]_vars

\* importFromCSV(filename) of part_001, the last call of the run; alt records
\* the rows, and the employees map and root before the call
ImportFromCSVSinglePass ==
  /\ alt = <<>>
  /\ \E base \in CsvRowSets :
       \E p \in Permutations(1..Len(base)) :
         LET rows == Reorder(base, p)
             r == importFromCSVSinglePass(Chart, rows)
         IN /\ heap' = r.c.heap
            /\ employees' = r.c.employees
            /\ root' = r.c.root
            /\ history' = r.c.history
            /\ future' = r.c.future
            /\ nextId' = r.c.nextId
            /\ last' = [op |-> "importFromCSV", res |-> r.res, id |-> NULL,
                        mgr |-> NULL, prevMut |-> FALSE, undoPhase |-> 0,
                        stacks |-> <<>>,
                        patch |-> NoPatch]
            /\ preSer' = SerializeOrg(Chart)
            /\ alt' = <<[rows |-> rows, before |-> employees, root0 |-> root]>>

NextSinglePass ==
  \/ CsvSetRoot
  \/ CsvAddEmployee
  \/ ImportFromCSVSinglePass

SpecSinglePass == Init /\ [][NextSinglePass]_vars

\* ------------------------------------------------------------ file import runs
JsonFile(kind, doc, nullAt, nullPos) ==
  [kind |-> kind, doc |-> doc, nullAt |-> nullAt, nullPos |-> nullPos]

RECURSIVE DocNodes(_)
\* the nodes of a document
DocNodes(d) == {d} \cup UNION {DocNodes(d.reports[i]) : i \in 1..Len(d.reports)}

\* the documents on disk: what exportToJSON wrote of this chart, now or at
\* the time of an earlier snapshot
JsonDocs == Range(history) \cup Range(SerializeOrg(Chart))

\* exported documents edited by hand: the level of the top node raised by
\* two, the levels below it left as they were
EditedDocs == {[d EXCEPT !.level = @ + 2] : d \in JsonDocs}

\* the files a user may name: one that cannot be read, one that is not JSON,
\* the JSON text null, an exported document, one edited by hand, and an
\* exported document with a null entry put into the reports array of one of
\* its nodes
JsonFiles ==
  {JsonFile("unreadable", <<>>, NULL, 0), JsonFile("notjson", <<>>, NULL, 0),
   JsonFile("json", <<>>, NULL, 0)}
    \cup {JsonFile("json", <<d>>, NULL, 0) : d \in JsonDocs \cup EditedDocs}
    \cup UNION {UNION {{JsonFile("json", <<d>>, n.id, k) :
                          k \in 1..(Len(n.reports) + 1)} :
                       n \in DocNodes(d)} : d \in JsonDocs}

\* createNewOrg and addEmployee, before the import
JsonSetRoot == alt = <<>> /\ SetRoot

JsonAddEmployee ==
  /\ alt = <<>>
  /\ nextId <= MaxEmp
  /\ \E f \in AddFields, m \in Store :
       Step("addEmployee", addEmployee(Chart, f, m), nextId, m)

\* importFromJSON(filename), the last call of the run; alt records the file
ImportFromJSON ==
  /\ alt = <<>>
  /\ \E file \in JsonFiles :
       LET r == importFromJSON(Chart, file)
       IN /\ heap' = r.c.heap
          /\ employees' = r.c.employees
          /\ root' = r.c.root
          /\ history' = r.c.history
          /\ future' = r.c.future
          /\ nextId' = r.c.nextId
          /\ last' = [op |-> "importFromJSON", res |-> r.res, id |-> NULL,
                      mgr |-> NULL, prevMut |-> FALSE, undoPhase |-> 0,
                      stacks |-> <<>>,
                      patch |-> NoPatch]
          /\ preSer' = SerializeOrg(Chart)
          /\ alt' = <<file>>

NextJSON ==
  \/ JsonSetRoot
  \/ JsonAddEmployee
  \/ ImportFromJSON

SpecJSON == Init /\ [][NextJSON]_vars

\* ------------------------------------------------------------ objects by reference
\* The same engine with object identity kept apart from the id field: the
\* heap is keyed by reference (1, 2, ... in order of creation), each object
\* carries its id, the employees map takes an id to a reference, and root,
\* manager and reports hold references.  _loadSnapshot replaces root and
\* every entry of the map by objects it creates, after which no object made
\* before is referenced by the chart; the heap then starts again from the
\* objects of the reload.  NewEmployee, addReport, ReassignReports,
\* DetachReports, UpdateLevels, CanSerialize and EditField do not look at
\* ids and are used as they are.
ObjAlloc(h) == Cardinality(DOMAIN h) + 1

\* the heap with one more object
ObjNew(h, e) ==
  [x \in DOMAIN h \cup {ObjAlloc(h)} |-> IF x = ObjAlloc(h) THEN e ELSE h[x]]

\* this.employees[id] = object
ObjPut(m, id, a) == [k \in DOMAIN m \cup {id} |-> IF k = id THEN a ELSE m[k]]

\* delete this.employees[id]
ObjDelete(m, id) == [k \in DOMAIN m \ {id} |-> m[k]]

\* new Employee(...), with the uuid the constructor draws
ObjEmployee(h, f, manager, id) ==
  [id |-> id, name |-> f.name, title |-> f.title, lob |-> f.lob,
   division |-> f.division, dept |-> f.dept, email |-> f.email,
   manager |-> manager, reports |-> <<>>,
   level |-> NewEmployee(h, f, manager).level]

RECURSIVE ObjSerializeNode(_, _)
\* serializeNode of _prepareForExport
ObjSerializeNode(h, n) ==
  [id |-> h[n].id, name |-> h[n].name, title |-> h[n].title, lob |-> h[n].lob,
   division |-> h[n].division, dept |-> h[n].dept, email |-> h[n].email,
   level |-> h[n].level,
   reports |-> [i \in 1..Len(h[n].reports) |->
                  ObjSerializeNode(h, h[n].reports[i])]]

ObjPrepareForExport(c) == ObjSerializeNode(c.heap, c.root)

ObjSerializeOrg(c) ==
  IF CanSerialize(c) THEN <<ObjPrepareForExport(c)>> ELSE <<>>

RECURSIVE ObjRecreateFromJSON(_, _, _)
RECURSIVE ObjRecreateChildren(_, _, _, _)
ObjRecreateChildren(c, kids, i, parent) ==
  IF i > Len(kids) THEN c
  ELSE ObjRecreateChildren(ObjRecreateFromJSON(c, kids[i], parent), kids,
                           i + 1, parent)

\* _recreateFromJSON that builds a second instance for the employees map:
\* the object in the tree and the object under the id are not the same one
ObjRecreateCopy(c, obj, manager) ==
  LET a  == ObjAlloc(c.heap)
      e  == [id |-> obj.id, name |-> obj.name, title |-> obj.title,
             lob |-> obj.lob, division |-> obj.division, dept |-> obj.dept,
             email |-> obj.email, manager |-> manager, reports |-> <<>>,
             level |-> obj.level]
      h1 == ObjNew(ObjNew(c.heap, e), e)
      h2 == IF manager = NULL THEN h1
            ELSE [h1 EXCEPT ![manager].reports = Append(@, a)]
      c1 == [c EXCEPT !.heap = h2,
                      !.employees = ObjPut(@, obj.id, a + 1),
                      !.root = IF manager = NULL THEN a ELSE @]
  IN ObjRecreateChildren(c1, obj.reports, 1, a)

\* _recreateFromJSON(obj, manager)
ObjRecreateFromJSON(c, obj, manager) ==
  LET a  == ObjAlloc(c.heap)
      e  == [id |-> obj.id, name |-> obj.name, title |-> obj.title,
             lob |-> obj.lob, division |-> obj.division, dept |-> obj.dept,
             email |-> obj.email, manager |-> manager, reports |-> <<>>,
             level |-> obj.level]
      h1 == ObjNew(c.heap, e)
      h2 == IF manager = NULL THEN h1
            ELSE [h1 EXCEPT ![manager].reports = Append(@, a)]
      c1 == [c EXCEPT !.heap = h2,
                      !.employees = ObjPut(@, obj.id, a),
                      !.root = IF manager = NULL THEN a ELSE @]
  IN ObjRecreateChildren(c1, obj.reports, 1, a)

\* _loadSnapshot
ObjLoadSnapshot(c, snapshot) ==
  ObjRecreateFromJSON([c EXCEPT !.employees = <<>>, !.heap = EmptyHeap],
                      snapshot, NULL)

ObjPushState(c) ==
  [c EXCEPT !.history = Append(@, ObjPrepareForExport(c)), !.future = <<>>]

ObjUndo(c) ==
  IF Len(c.history) < 2 THEN [c |-> c, res |-> "fail"]
  ELSE LET current == c.history[Len(c.history)]
           hist == SubSeq(c.history, 1, Len(c.history) - 1)
           c1 == [c EXCEPT !.history = hist, !.future = Append(@, current)]
       IN [c |-> ObjLoadSnapshot(c1, hist[Len(hist)]), res |-> "ok"]

ObjRedo(c) ==
  IF Len(c.future) = 0 THEN [c |-> c, res |-> "fail"]
  ELSE LET snapshot == c.future[Len(c.future)]
           c1 == [c EXCEPT !.future = SubSeq(@, 1, Len(@) - 1),
                           !.history = Append(@, snapshot)]
       IN [c |-> ObjLoadSnapshot(c1, snapshot), res |-> "ok"]

ObjSetRoot(c, f) ==
  LET a  == ObjAlloc(c.heap)
      c1 == [c EXCEPT !.heap = ObjNew(@, ObjEmployee(c.heap, f, NULL, c.nextId)),
                      !.root = a,
                      !.employees = ObjPut(@, c.nextId, a),
                      !.nextId = @ + 1]
  IN [c |-> ObjPushState(c1), res |-> "ok"]

ObjAddEmployee(c, f, managerId) ==
  IF c.root = NULL THEN [c |-> c, res |-> "fail"]
  ELSE IF ~CanSerialize(c) THEN [c |-> c, res |-> "throw"]
  ELSE LET c0 == ObjPushState(c)
           manager == IF managerId \in DOMAIN c0.employees
                      THEN c0.employees[managerId] ELSE c0.root
           a  == ObjAlloc(c0.heap)
           h1 == ObjNew(c0.heap, ObjEmployee(c0.heap, f, manager, c0.nextId))
           h2 == addReport(h1, manager, a)
       IN [c |-> [c0 EXCEPT !.heap = h2,
                            !.employees = ObjPut(@, c0.nextId, a),
                            !.nextId = @ + 1],
           res |-> "ok"]

RECURSIVE FilterOutById(_, _, _)
\* arr.filter((r) => r.id !== id), on references
FilterOutById(h, s, id) ==
  IF s = <<>> THEN <<>>
  ELSE IF h[Head(s)].id = id THEN FilterOutById(h, Tail(s), id)
       ELSE <<Head(s)>> \o FilterOutById(h, Tail(s), id)

ObjRemoveEmployee(c, employeeId, newManagerId) ==
  IF c.root # NULL /\ c.heap[c.root].id = employeeId
  THEN [c |-> c, res |-> "fail"]
  ELSE IF employeeId \notin DOMAIN c.employees THEN [c |-> c, res |-> "fail"]
  ELSE IF ~CanSerialize(c) THEN [c |-> c, res |-> "throw"]
  ELSE LET c0 == ObjPushState(c)
           employee == c0.employees[employeeId]
           rs == c0.heap[employee].reports
           h1 == IF newManagerId # NULL /\ newManagerId \in DOMAIN c0.employees
                 THEN ReassignReports(c0.heap, rs, 1, c0.employees[newManagerId])
                 ELSE DetachReports(c0.heap, rs)
           m  == h1[employee].manager
           h2 == IF m # NULL
                 THEN [h1 EXCEPT ![m].reports =
                                   FilterOutById(h1, @, h1[employee].id)]
                 ELSE h1
       IN [c |-> [c0 EXCEPT !.heap = h2,
                            !.employees = ObjDelete(@, employeeId)],
           res |-> "ok"]

ObjEditEmployee(c, employeeId, newData) ==
  IF employeeId \notin DOMAIN c.employees THEN [c |-> c, res |-> "fail"]
  ELSE IF ~CanSerialize(c) THEN [c |-> c, res |-> "throw"]
  ELSE LET c0 == ObjPushState(c)
           employee == c0.employees[employeeId]
           e  == c0.heap[employee]
           e1 == [e EXCEPT !.name = EditField(@, newData.name),
                           !.title = EditField(@, newData.title),
                           !.lob = EditField(@, newData.lob),
                           !.division = EditField(@, newData.division),
                           !.dept = EditField(@, newData.dept),
                           !.email = EditField(@, newData.email)]
       IN [c |-> [c0 EXCEPT !.heap[employee] = e1], res |-> "ok"]

RECURSIVE IsDescendantById(_, _, _, _)
RECURSIVE IsDescendantByIdFrom(_, _, _, _, _)
IsDescendantByIdFrom(h, rs, i, candidate, stack) ==
  IF i > Len(rs) THEN "false"
  ELSE IF h[rs[i]].id = h[candidate].id THEN "true"
  ELSE LET sub == IsDescendantById(h, rs[i], candidate, stack)
       IN IF sub = "false"
          THEN IsDescendantByIdFrom(h, rs, i + 1, candidate, stack)
          ELSE sub

\* _isDescendant of part_000: r.id === candidate.id
IsDescendantById(h, n, candidate, stack) ==
  IF n \in stack THEN "diverges"
  ELSE IsDescendantByIdFrom(h, h[n].reports, 1, candidate, stack \cup {n})

RECURSIVE IsDescendantByRef(_, _, _, _)
RECURSIVE IsDescendantByRefFrom(_, _, _, _, _)
IsDescendantByRefFrom(h, rs, i, candidate, stack) ==
  IF i > Len(rs) THEN "false"
  ELSE IF rs[i] = candidate THEN "true"
  ELSE LET sub == IsDescendantByRef(h, rs[i], candidate, stack)
       IN IF sub = "false"
          THEN IsDescendantByRefFrom(h, rs, i + 1, candidate, stack)
          ELSE sub

\* _isDescendant of part_001: r === candidate, after the early return for a
\* node without reports
IsDescendantByRef(h, n, candidate, stack) ==
  IF n \in stack THEN "diverges"
  ELSE IF Len(h[n].reports) = 0 THEN "false"
  ELSE IsDescendantByRefFrom(h, h[n].reports, 1, candidate, stack \cup {n})

\* moveSubtree of part_000: employee.id === newManager.id, and the old
\* manager's reports filtered by id
moveSubtreeById(c, employeeId, newManagerId) ==
  IF employeeId \notin DOMAIN c.employees \/ newManagerId \notin DOMAIN c.employees
  THEN [c |-> c, res |-> "fail"]
  ELSE LET employee == c.employees[employeeId]
           newManager == c.employees[newManagerId]
       IN IF employee = c.root THEN [c |-> c, res |-> "fail"]
          ELSE IF c.heap[employee].id = c.heap[newManager].id
          THEN [c |-> c, res |-> "fail"]
          ELSE LET d == IsDescendantById(c.heap, employee, newManager, {})
               IN IF d = "true" THEN [c |-> c, res |-> "fail"]
                  ELSE IF d = "diverges" THEN [c |-> c, res |-> "throw"]
                  ELSE IF ~CanSerialize(c) THEN [c |-> c, res |-> "throw"]
                  ELSE LET c0 == ObjPushState(c)
                           m  == c0.heap[employee].manager
                           h1 == IF m # NULL
                                 THEN [c0.heap EXCEPT ![m].reports =
                                         FilterOutById(c0.heap, @,
                                                       c0.heap[employee].id)]
                                 ELSE c0.heap
                           h2 == addReport(h1, newManager, employee)
                           h3 == UpdateLevels(h2, employee,
                                              h2[newManager].level + 1)
                       IN [c |-> [c0 EXCEPT !.heap = h3], res |-> "ok"]

\* moveSubtree of part_001: employee === newManager, and the old manager's
\* reports filtered by reference
moveSubtreeByRef(c, employeeId, newManagerId) ==
  IF employeeId \notin DOMAIN c.employees \/ newManagerId \notin DOMAIN c.employees
  THEN [c |-> c, res |-> "fail"]
  ELSE LET employee == c.employees[employeeId]
           newManager == c.employees[newManagerId]
       IN IF employee = c.root THEN [c |-> c, res |-> "fail"]
          ELSE IF employee = newManager THEN [c |-> c, res |-> "fail"]
          ELSE LET d == IsDescendantByRef(c.heap, employee, newManager, {})
               IN IF d = "true" THEN [c |-> c, res |-> "fail"]
                  ELSE IF d = "diverges" THEN [c |-> c, res |-> "throw"]
                  ELSE IF ~CanSerialize(c) THEN [c |-> c, res |-> "throw"]
                  ELSE LET c0 == ObjPushState(c)
                           m  == c0.heap[employee].manager
                           h1 == IF m # NULL
                                 THEN [c0.heap EXCEPT ![m].reports =
                                         FilterOut(@, employee)]
                                 ELSE c0.heap
                           h2 == addReport(h1, newManager, employee)
                           h3 == UpdateLevels(h2, employee,
                                              h2[newManager].level + 1)
                       IN [c |-> [c0 EXCEPT !.heap = h3], res |-> "ok"]

\* ids a caller may pass: the keys of the employees map, and one that is not
ObjAnyId == DOMAIN employees \cup {UnknownId}

\* the step of one call on the chart of objects
ObjStep(op, r, id, mgr, patch) ==
  /\ heap' = r.c.heap
  /\ employees' = r.c.employees
  /\ root' = r.c.root
  /\ history' = r.c.history
  /\ future' = r.c.future
  /\ nextId' = r.c.nextId
  /\ last' = [op |-> op, res |-> r.res, id |-> id, mgr |-> mgr,
              prevMut |-> last.op \in Mutations /\ last.res = "ok",
              undoPhase |-> UndoPhase(op, r.res), patch |-> patch,
              stacks |-> IF op = "undo" THEN <<history, future>> ELSE <<>>]
  /\ preSer' = ObjSerializeOrg(Chart)
  /\ alt' = alt

RefSetRoot ==
  /\ root = NULL
  /\ \E f \in RootFields :
       ObjStep("setRoot", ObjSetRoot(Chart, f), nextId, NULL, NoPatch)

RefAddEmployee ==
  /\ nextId <= MaxEmp
  /\ Len(history) < MaxHist
  /\ \E f \in AddFields, m \in ObjAnyId \cup {NULL} :
       ObjStep("addEmployee", ObjAddEmployee(Chart, f, m), nextId, m, NoPatch)

RefRemoveEmployee ==
  /\ Len(history) < MaxHist
  /\ \E id \in ObjAnyId, m \in ObjAnyId \cup {NULL} :
       ObjStep("removeEmployee", ObjRemoveEmployee(Chart, id, m), id, m, NoPatch)

RefEditEmployee ==
  /\ Len(history) < MaxHist
  /\ \E id \in ObjAnyId, p \in EditPatches :
       ObjStep("editEmployee", ObjEditEmployee(Chart, id, p), id, NULL, p)

\* moveSubtree, of either variant of the engine
RefMoveSubtree ==
  /\ Len(history) < MaxHist
  /\ \E id \in ObjAnyId, m \in ObjAnyId :
       \/ ObjStep("moveSubtree", moveSubtreeById(Chart, id, m), id, m, NoPatch)
       \/ ObjStep("moveSubtree", moveSubtreeByRef(Chart, id, m), id, m, NoPatch)

RefUndo == ObjStep("undo", ObjUndo(Chart), NULL, NULL, NoPatch)

RefRedo == ObjStep("redo", ObjRedo(Chart), NULL, NULL, NoPatch)

NextRef ==
  \/ RefSetRoot
  \/ RefAddEmployee
  \/ RefRemoveEmployee
  \/ RefEditEmployee
  \/ RefMoveSubtree
  \/ RefUndo
  \/ RefRedo

SpecRef == Init /\ [][NextRef]_vars

\* ------------------------------------------------------------ name-keyed engine
\* The variant of the engine in src/orgchart.js keys the employees map by
\* name, keeps no manager pointer (a manager is found by scanning reports
\* lists for the name) and has no history.  Objects are kept in a heap keyed
\* by reference; the map is the sequence of its entries [key, ref] in
\* insertion order, the order "for (const name in this.employees)" and
\* Object.values follow.  The id of an Employee takes part in no operation
\* modelled here and is left out.  An absent or empty manager name is "".

\* this.employees[k] is defined
NkHas(m, k) == \E i \in 1..Len(m) : m[i].key = k

NkIndex(m, k) == CHOOSE i \in 1..Len(m) : m[i].key = k

\* this.employees[k]
NkGet(m, k) == m[NkIndex(m, k)].ref

\* this.employees[k] = object: a key already present keeps its place
NkSet(m, k, a) ==
  IF NkHas(m, k) THEN [m EXCEPT ![NkIndex(m, k)].ref = a]
  ELSE Append(m, [key |-> k, ref |-> a])

\* delete this.employees[k]
NkDelete(m, k) == SelectSeq(m, LAMBDA e : e.key # k)

\* Object.values(this.employees), as a set
NkValues(m) == {m[i].ref : i \in 1..Len(m)}

\* new Employee(name, title, 0, lob, division, dept, email)
NkEmployee(f) ==
  [name |-> f.name, title |-> f.title, level |-> 0, lob |-> f.lob,
   division |-> f.division, dept |-> f.dept, email |-> f.email,
   reports |-> <<>>]

\* Employee.addReport: manager.addReport(employee)
NkAddReport(h, m, e) ==
  LET h1 == [h EXCEPT ![e].level = h[m].level + 1]
  IN [h1 EXCEPT ![m].reports = Append(@, e)]

\* reports.some((e) => e.name === name)
NkReportsName(h, a, name) ==
  \E j \in 1..Len(h[a].reports) : h[h[a].reports[j]].name = name

RECURSIVE NkFilterOutName(_, _, _)
\* reports.filter((e) => e.name !== name)
NkFilterOutName(h, s, name) ==
  IF s = <<>> THEN <<>>
  ELSE IF h[Head(s)].name = name THEN NkFilterOutName(h, Tail(s), name)
       ELSE <<Head(s)>> \o NkFilterOutName(h, Tail(s), name)

\* _findManager(employeeName): the first entry of the map whose reports
\* hold an object of that name, or null
NkFindManager(c, employeeName) ==
  LET hits == {i \in 1..Len(c.employees) :
                 NkReportsName(c.heap, c.employees[i].ref, employeeName)}
  IN IF hits = {} THEN NULL
     ELSE c.employees[CHOOSE i \in hits : \A j \in hits : i <= j].ref

\* setRoot(new Employee(...))
NkSetRoot(c, f) ==
  LET a == ObjAlloc(c.heap)
  IN [c |-> [c EXCEPT !.heap = ObjNew(@, NkEmployee(f)), !.root = a,
                      !.employees = NkSet(@, f.name, a)],
      res |-> "ok"]

NkAddEmployee(c, f, managerName) ==
  LET a  == ObjAlloc(c.heap)
      h1 == ObjNew(c.heap, NkEmployee(f))
      m1 == NkSet(c.employees, f.name, a)
      h2 == IF managerName # "" /\ NkHas(m1, managerName)
            THEN NkAddReport(h1, NkGet(m1, managerName), a)
            ELSE h1
  IN [c |-> [c EXCEPT !.heap = h2, !.employees = m1], res |-> "ok"]

RECURSIVE NkReassign(_, _, _, _)
\* employee.reports.forEach((report) => newManager.addReport(report))
NkReassign(h, rs, i, newManager) ==
  IF i > Len(rs) THEN h
  ELSE NkReassign(NkAddReport(h, newManager, rs[i]), rs, i + 1, newManager)

NkRemoveEmployee(c, name, newManagerName) ==
  IF ~NkHas(c.employees, name) THEN [c |-> c, res |-> "fail"]
  ELSE LET employee == NkGet(c.employees, name)
           manager == NkFindManager(c, name)
           h1 == IF newManagerName # "" /\ NkHas(c.employees, newManagerName)
                 THEN NkReassign(c.heap, c.heap[employee].reports, 1,
                                 NkGet(c.employees, newManagerName))
                 ELSE c.heap
           h2 == IF manager # NULL
                 THEN [h1 EXCEPT ![manager].reports = NkFilterOutName(h1, @, name)]
                 ELSE h1
       IN [c |-> [c EXCEPT !.heap = h2, !.employees = NkDelete(@, name)],
           res |-> "ok"]

\* newData.x ?? employee.x; a field of the patch is <<>> when absent and
\* <<s>> when it is the string s
NkCoalesce(cur, p) == IF p = <<>> THEN cur ELSE p[1]

\* editEmployee(oldName, newData): "fail" when oldName is no key, "throw"
\* for the Error raised when the new name is taken
NkEditEmployee(c, oldName, newData) ==
  IF ~NkHas(c.employees, oldName) THEN [c |-> c, res |-> "fail"]
  ELSE LET employee == NkGet(c.employees, oldName)
           n == newData.name
           rename == n # <<>> /\ n[1] # "" /\ Trim(n[1]) # "" /\ n[1] # oldName
       IN IF rename /\ NkHas(c.employees, n[1]) THEN [c |-> c, res |-> "throw"]
          ELSE LET m1 == IF rename
                         THEN Append(NkDelete(c.employees, oldName),
                                     [key |-> n[1], ref |-> employee])
                         ELSE c.employees
                   manager == IF rename
                              THEN NkFindManager([c EXCEPT !.employees = m1], oldName)
                              ELSE NULL
                   idx == CHOOSE j \in 1..Len(c.heap[manager].reports) :
                            /\ c.heap[c.heap[manager].reports[j]].name = oldName
                            /\ \A k \in 1..(j - 1) :
                                 c.heap[c.heap[manager].reports[k]].name # oldName
                   h1 == IF manager # NULL
                         THEN [c.heap EXCEPT ![c.heap[manager].reports[idx]].name = n[1]]
                         ELSE c.heap
                   e  == h1[employee]
                   e1 == [e EXCEPT !.name = NkCoalesce(@, n),
                                   !.title = NkCoalesce(@, newData.title),
                                   !.lob = NkCoalesce(@, newData.lob),
                                   !.division = NkCoalesce(@, newData.division),
                                   !.dept = NkCoalesce(@, newData.dept),
                                   !.email = NkCoalesce(@, newData.email)]
               IN [c |-> [c EXCEPT !.heap = [h1 EXCEPT ![employee] = e1],
                                   !.employees = m1],
                   res |-> "ok"]

\* row.x || existing.x
NkOr(new, cur) == IF new # "" THEN new ELSE cur

RECURSIVE NkFirstPass(_, _, _, _)
\* first results.data.forEach: create or update the employees; st is the
\* chart and newEmployeeMap
NkFirstPass(st, rows, i, mergeMode) ==
  IF i > Len(rows) THEN st
  ELSE LET row == rows[i]
           c == st.c
       IN IF row.name = "" \/ row.title = ""
          THEN NkFirstPass(st, rows, i + 1, mergeMode)
          ELSE IF mergeMode /\ NkHas(c.employees, row.name)
          THEN LET x  == NkGet(c.employees, row.name)
                   e  == c.heap[x]
                   e1 == [e EXCEPT !.title = row.title,
                                   !.lob = NkOr(row.lob, @),
                                   !.division = NkOr(row.division, @),
                                   !.dept = NkOr(row.dept, @),
                                   !.email = NkOr(row.email, @)]
               IN NkFirstPass([c |-> [c EXCEPT !.heap[x] = e1],
                               new |-> NkSet(st.new, row.name, x)],
                              rows, i + 1, mergeMode)
          ELSE LET a == ObjAlloc(c.heap)
               IN NkFirstPass([c |-> [c EXCEPT !.heap = ObjNew(@, NkEmployee(row)),
                                               !.employees = NkSet(@, row.name, a)],
                               new |-> NkSet(st.new, row.name, a)],
                              rows, i + 1, mergeMode)

RECURSIVE NkSecondPass(_, _, _, _)
\* second results.data.forEach: the manager-report relationships
NkSecondPass(st, rows, i, mergeMode) ==
  IF i > Len(rows) THEN st
  ELSE LET row == rows[i]
           c == st.c
           skip == NkSecondPass(st, rows, i + 1, mergeMode)
       IN IF row.name = "" \/ ~NkHas(st.new, row.name) THEN skip
          ELSE IF row.manager = "" THEN skip
          ELSE LET employee == NkGet(st.new, row.name)
                   manager == IF NkHas(st.new, row.manager)
                              THEN NkGet(st.new, row.manager)
                              ELSE IF mergeMode /\ NkHas(c.employees, row.manager)
                              THEN NkGet(c.employees, row.manager)
                              ELSE NULL
               IN IF manager = NULL THEN skip
                  ELSE IF NkReportsName(c.heap, manager, c.heap[employee].name)
                  THEN skip
                  ELSE LET h1 == IF mergeMode
                                 THEN [x \in DOMAIN c.heap |->
                                         IF x \in NkValues(c.employees) /\ x # manager
                                         THEN [c.heap[x] EXCEPT !.reports =
                                                 NkFilterOutName(c.heap, @,
                                                                 c.heap[employee].name)]
                                         ELSE c.heap[x]]
                                 ELSE c.heap
                           h2 == NkAddReport(h1, manager, employee)
                       IN NkSecondPass([st EXCEPT !.c.heap = h2], rows, i + 1,
                                       mergeMode)

\* the employees that are in no reports list of the map's values, in the
\* order of the map
NkPossibleRoots(c) ==
  SelectSeq(c.employees,
            LAMBDA e : ~\E x \in NkValues(c.employees) :
                          e.ref \in Range(c.heap[x].reports))

\* importFromCSV(filename, mergeMode); a file is [kind, rows]: kind
\* "unreadable" (readFileSync throws), "parseError" (results.errors is not
\* empty) or "rows" with the parsed rows
NkImportFromCSV(c, file, mergeMode) ==
  IF file.kind # "rows" \/ Len(file.rows) = 0 THEN [c |-> c, res |-> "fail"]
  ELSE LET c0 == IF mergeMode THEN c ELSE [c EXCEPT !.employees = <<>>]
           s1 == NkFirstPass([c |-> c0, new |-> <<>>], file.rows, 1, mergeMode)
           s2 == NkSecondPass(s1, file.rows, 1, mergeMode)
           c2 == s2.c
       IN IF ~mergeMode \/ c.root = NULL
          THEN IF NkPossibleRoots(c2) = <<>>
               THEN [c |-> IF mergeMode
                           THEN [c2 EXCEPT !.employees = c.employees,
                                           !.root = c.root]
                           ELSE c2,
                     res |-> "fail"]
               ELSE [c |-> [c2 EXCEPT !.root = NkPossibleRoots(c2)[1].ref],
                     res |-> "ok"]
          ELSE [c |-> c2, res |-> "ok"]

\* ------------------------------------------------------------ name-keyed engine, runs
\* the names given to the calls: two names and a name of one blank
NkNames == {"Ann", "Bob", " "}

\* a name that is no key
NkUnknown == "Zed"

NkKeys == {employees[i].key : i \in 1..Len(employees)}

\* the newData of an edit: the name absent, empty, or one of the names
NkPatches ==
  {[NoPatch EXCEPT !.name = n] : n \in {<<>>, <<"">>} \cup {<<x>> : x \in NkNames}}

NkRow(name, title, manager) ==
  [name |-> name, title |-> title, manager |-> manager, lob |-> "",
   division |-> "", dept |-> "", email |-> ""]

\* the rows a file may hold
NkRowSet ==
  {NkRow(n, "Eng", m) : n \in NkNames, m \in {"", "Ann", "Bob"}}
    \cup {NkRow("Ann", "", "")}

\* the files: one that cannot be read, one that does not parse, and the
\* files of up to MaxNkRows rows
NkFiles ==
  {[kind |-> k, rows |-> <<>>] : k \in {"unreadable", "parseError", "rows"}}
    \cup {[kind |-> "rows", rows |-> rs] :
            rs \in UNION {[1..n -> NkRowSet] : n \in 1..MaxNkRows}}

\* the step of one call on the name-keyed chart, recorded by its name and
\* its outcome; levels are capped at MaxLevel
NkStep(op, r) ==
  /\ \A x \in DOMAIN r.c.heap : r.c.heap[x].level <= MaxLevel
  /\ heap' = r.c.heap
  /\ employees' = r.c.employees
  /\ root' = r.c.root
  /\ last' = [last EXCEPT !.op = op, !.res = r.res]
  /\ UNCHANGED <<history, future, nextId, preSer, alt>>

\* createNewOrgChart: a new OrgChart, then setRoot
NameCreateNewOrg ==
  \E n \in NkNames :
    NkStep("setRoot", NkSetRoot(NewOrgChart, Fields(n, "Eng")))

NameAddEmployee ==
  /\ Cardinality(DOMAIN heap) < MaxObj
  /\ \E n \in NkNames, m \in NkNames \cup {""} :
       NkStep("addEmployee", NkAddEmployee(Chart, Fields(n, "Eng"), m))

NameRemoveEmployee ==
  \E n \in NkKeys \cup {NkUnknown}, m \in NkKeys \cup {NkUnknown, ""} :
    NkStep("removeEmployee", NkRemoveEmployee(Chart, n, m))

NameEditEmployee ==
  \E n \in NkKeys \cup {NkUnknown}, p \in NkPatches :
    NkStep("editEmployee", NkEditEmployee(Chart, n, p))

NameImportFromCSV ==
  \E file \in NkFiles, mergeMode \in BOOLEAN :
    /\ Cardinality(DOMAIN heap) + Len(file.rows) <= MaxObj
    /\ NkStep("importFromCSV", NkImportFromCSV(Chart, file, mergeMode))

NextName ==
  \/ NameCreateNewOrg
  \/ NameAddEmployee
  \/ NameRemoveEmployee
  \/ NameEditEmployee
  \/ NameImportFromCSV

SpecName == Init /\ [][NextName]_vars

\* ------------------------------------------------------------ tree shape
ProgVars == <<heap, employees, root, history, future>>

\* members of the store that have no manager
NullManaged == {m \in Store : heap[m].manager = NULL}

RECURSIVE ChainReachesRoot(_, _)
\* following manager links from m ends at the root
ChainReachesRoot(m, seen) ==
  IF m = root THEN TRUE
  ELSE IF m \in seen \/ heap[m].manager = NULL THEN FALSE
  ELSE ChainReachesRoot(heap[m].manager, seen \cup {m})

RECURSIVE HasAncestor(_, _, _)
\* a is met when following manager links from the manager of b
HasAncestor(b, a, seen) ==
  LET m == heap[b].manager
  IN IF m = NULL \/ b \in seen THEN FALSE
     ELSE IF m = a THEN TRUE
     ELSE HasAncestor(m, a, seen \cup {b})

\* b is in the subtree of a (b is not a)
InSubtree(a, b) == b # a /\ HasAncestor(b, a, {})

Count(s, x) == Cardinality({i \in 1..Len(s) : s[i] = x})

SingleNullManager == NullManaged = {root}
AllReachRoot == \A m \in Store : ChainReachesRoot(m, {})
ManagersInStore == \A m \in Store : heap[m].manager # NULL => heap[m].manager \in Store
ReportsAgree ==
  \A m \in Store, r \in Store :
    Count(heap[m].reports, r) = (IF heap[r].manager = m THEN 1 ELSE 0)
LevelsConsistent ==
  /\ heap[root].level = 0
  /\ \A m \in Store : heap[m].manager # NULL =>
       heap[m].level = heap[heap[m].manager].level + 1

\* the chart is a tree: invariants 1, 2 and 4 of the data model, and the
\* reports lists mirror the manager pointers
ValidTree ==
  /\ root # NULL
  /\ SingleNullManager
  /\ AllReachRoot
  /\ ManagersInStore
  /\ ReportsAgree

\* ------------------------------------------------------------ claims
\* C1: undo() right after a successful mutation M makes the serialized tree
\* equal to the serialized tree as it was just before M.
C1_UndoRestoresPreMutation ==
  [][(last.op \in Mutations /\ last.res = "ok" /\ last'.op = "undo")
       => SerializeOrg(Chart)' = preSer]_vars

\* C2: M; undo(); redo() leaves the serialized tree equal to the serialized
\* tree as it was just after M (preSer is the tree before the undo).
C2_RedoRestoresPostMutation ==
  [][(last.op = "undo" /\ last.res = "ok" /\ last.prevMut /\ last'.op = "redo")
       => SerializeOrg(Chart)' = preSer]_vars

\* C3: once the root is set, exactly one member of the store has no manager,
\* and that member is the root.
C3_SingleRoot == root # NULL => SingleNullManager

\* C4: from every member of the store, following manager links reaches the
\* root in finitely many steps.  Stated for the states in which the root is
\* the only member without a manager, so that what fails is a cycle and not
\* a detached member (which is C3's case).
C4_Acyclic == (root # NULL /\ SingleNullManager) => AllReachRoot

\* C5: the root has level 0 and every other member has the level of its
\* manager plus 1.  Stated for the states in which the manager links form a
\* tree (C3, C4 and C6 hold), so that what fails is a level alone.
C5_LevelsConsistent ==
  (root # NULL /\ SingleNullManager /\ AllReachRoot /\ ManagersInStore)
    => LevelsConsistent

\* C6: every member's non-null manager is a member of the store.
C6_ManagersInStore == ManagersInStore

\* C7: moveSubtree(A, B) with A and B in the store and A not the root fails
\* and changes nothing when B = A or B is in A's subtree, and succeeds
\* otherwise.
C7_MoveGuard ==
  [][(/\ last'.op = "moveSubtree"
      /\ last'.id \in Store /\ last'.mgr \in Store /\ last'.id # root)
       => IF last'.mgr = last'.id \/ InSubtree(last'.id, last'.mgr)
          THEN last'.res = "fail" /\ UNCHANGED ProgVars
          ELSE last'.res = "ok"]_vars

\* C8: removeEmployee(id, X) with X a member of the store leaves every former
\* direct report of id with manager X and level X.level + 1; with no X, it
\* leaves every former direct report of id with manager null.
C8_RemoveReassigns ==
  [][(last'.op = "removeEmployee" /\ last'.res = "ok")
       => \A r \in Range(heap[last'.id].reports) :
            IF last'.mgr \in Store
            THEN /\ heap'[r].manager = last'.mgr
                 /\ heap'[r].level = heap'[last'.mgr].level + 1
            ELSE last'.mgr = NULL => heap'[r].manager = NULL]_vars

\* the chart rebuilt by _recreateFromJSON from the output of _prepareForExport
Reloaded == LoadSnapshot(Chart, PrepareForExport(Chart))

\* C9: for a valid tree, _recreateFromJSON of the output of _prepareForExport
\* has the same ids, the same root, and for every id the same fields, manager,
\* reports in the same order and level; serializing it again gives the same
\* document.
C9_ExportImportRoundTrip ==
  ValidTree =>
    /\ Range(Reloaded.employees) = Store
    /\ Reloaded.root = root
    /\ \A m \in Store : Reloaded.heap[m] = heap[m]
    /\ PrepareForExport(Reloaded) = PrepareForExport(Chart)

\* a valid tree with two siblings, a member two levels down and a leaf next
\* to an inner node, rebuilt by an undo or a redo
C9_Witness ==
  /\ ValidTree
  /\ last.op \in {"undo", "redo"} /\ last.res = "ok"
  /\ \E m \in Store : Len(heap[m].reports) >= 2
  /\ \E m \in Store : heap[m].manager # NULL /\ heap[heap[m].manager].manager # NULL

\* ------------------------------------------------------------ bulk import claims
\* name, manager's name and level of every member of a store, with how many
\* members share them
Edge(h, m) ==
  <<h[m].name, IF h[m].manager = NULL THEN "" ELSE h[h[m].manager].name, h[m].level>>
Edges(h, es) == {Edge(h, m) : m \in Range(es)}
EdgeCount(h, es, e) == Cardinality({m \in Range(es) : Edge(h, m) = e})

\* same manager-by-name edges and same levels
Isomorphic(h1, es1, h2, es2) ==
  /\ Edges(h1, es1) = Edges(h2, es2)
  /\ \A e \in Edges(h1, es1) : EdgeCount(h1, es1, e) = EdgeCount(h2, es2, e)

\* every manager reference is empty or names another record of the file
RefsInFile(rows) ==
  \A i \in 1..Len(rows) :
    \/ Trim(rows[i].managerName) = ""
    \/ \E j \in 1..Len(rows) : j # i /\ Trim(rows[j].name) = Trim(rows[i].managerName)

DistinctNames(rows) ==
  \A i, j \in 1..Len(rows) : i # j => rows[i].name # rows[j].name

DistinctNamesIgnoringCase(rows) ==
  \A i, j \in 1..Len(rows) :
    i # j => ToLower(Trim(rows[i].name)) # ToLower(Trim(rows[j].name))

Imported == last.op = "importFromCSV" /\ alt # <<>>

\* C10 as claimed: records with distinct names whose manager references name
\* records of the file give isomorphic trees in every row order (every order
\* gives a tree isomorphic to the one the order rows2 gives, and being
\* isomorphic is an equivalence).
C10_OrderIndependent_Original ==
  (Imported /\ DistinctNames(alt[1].rows) /\ RefsInFile(alt[1].rows))
    => Isomorphic(heap, employees, alt[1].heap2, alt[1].employees2)

\* C10, amended: records whose names are distinct when letter case and
\* surrounding blanks are ignored, and whose manager references name records
\* of the file, give isomorphic trees in every row order.
C10_OrderIndependent ==
  (Imported /\ DistinctNamesIgnoringCase(alt[1].rows) /\ RefsInFile(alt[1].rows))
    => Isomorphic(heap, employees, alt[1].heap2, alt[1].employees2)

\* a file whose first row names the second as its manager was imported into
\* a chart that held the root alone, in two different orders; every row was
\* added, one of them below another
C10_Witness ==
  /\ Imported /\ last.res = "ok"
  /\ DistinctNamesIgnoringCase(alt[1].rows) /\ RefsInFile(alt[1].rows)
  /\ Len(alt[1].rows) >= 2
  /\ alt[1].rows # alt[1].rows2
  /\ alt[1].rows[1].managerName = alt[1].rows[2].name
  /\ preSer # <<>> /\ preSer[1].reports = <<>>
  /\ \E m \in Store : heap[m].level >= 2
  /\ Len(employees) = Len(alt[1].rows) + 1

\* a record with a name and a title (the others are discarded)
WellFormed(row) == Trim(row.name) # "" /\ Trim(row.title) # ""

\* the well-formed records whose manager reference names no member of the
\* chart as it is now
Unresolved(rows) ==
  {i \in 1..Len(rows) :
     /\ WellFormed(rows[i])
     /\ Trim(rows[i].managerName) # ""
     /\ FindByName(Chart, Trim(rows[i].managerName)) = NULL}

\* the well-formed records without a manager reference
Unmanaged(rows) ==
  {i \in 1..Len(rows) : WellFormed(rows[i]) /\ Trim(rows[i].managerName) = ""}

\* the members the import added
Added == Store \ Range(alt[1].before)

\* C11: a record whose manager reference matches no member of the chart the
\* import ends with is not added, the number of rows reported as not
\* imported is exactly the number of such records, and the import returns
\* success.
C11_UnresolvedRowsFailed ==
  Imported =>
    /\ last.res = "ok"
    /\ Len(alt[1].pending) = Cardinality(Unresolved(alt[1].rows))
    /\ \A i \in Unresolved(alt[1].rows) :
         /\ \E k \in 1..Len(alt[1].pending) :
              alt[1].pending[k] = NormalizeRow(alt[1].rows[i])
         /\ \A m \in Added : heap[m].name # Trim(alt[1].rows[i].name)

\* C12: after an import into a chart without a root, the root is the member
\* made from a record without a manager reference, when the file has one;
\* after an import into a chart with a root, every record without a manager
\* reference is a member whose manager is that root.
C12_UnmanagedRecord ==
  Imported =>
    IF alt[1].root0 = NULL
    THEN Unmanaged(alt[1].rows) # {} =>
           /\ root # NULL
           /\ \E i \in Unmanaged(alt[1].rows) :
                heap[root].name = Trim(alt[1].rows[i].name)
    ELSE \A i \in Unmanaged(alt[1].rows) :
           \E m \in Added :
             /\ heap[m].name = Trim(alt[1].rows[i].name)
             /\ heap[m].manager = alt[1].root0

\* ------------------------------------------------------------ undo / redo claims
\* C13: a successful mutation leaves the future sequence empty, whatever an
\* undo put there, and a redo() called right after a successful mutation
\* returns failure and changes neither the tree nor the stacks.
C13_MutationClearsRedo ==
  [][/\ (last'.op \in Mutations /\ last'.res = "ok") => future' = <<>>
     /\ (last.op \in Mutations /\ last.res = "ok" /\ last'.op = "redo")
          => last'.res = "fail" /\ UNCHANGED ProgVars]_vars

\* a redo has failed right after a successful mutation that followed a
\* successful undo
C13_Witness ==
  /\ last.op = "redo" /\ last.res = "fail"
  /\ last.prevMut /\ last.undoPhase = 3
  /\ future = <<>>

\* C14: undo() on a history of fewer than two snapshots returns failure and
\* changes neither the tree nor the stacks; once history holds a snapshot, no
\* call empties it.
C14_UndoFloor ==
  [][/\ (last'.op = "undo" /\ Len(history) < 2)
          => last'.res = "fail" /\ UNCHANGED ProgVars
     /\ history # <<>> => history' # <<>>]_vars

\* an undo was refused on a chart whose history is down to its first
\* snapshot, after earlier undos had moved the others to future
C14_Witness ==
  /\ last.op = "undo" /\ last.res = "fail"
  /\ root # NULL /\ Len(history) = 1 /\ Len(future) >= 2

\* C15: redo() with an empty future returns failure and changes neither the
\* tree nor the stacks; otherwise it succeeds, removes the last entry of
\* future and nothing else, appends that entry to history, and the tree
\* serializes to that entry.
C15_RedoContract ==
  [][last'.op = "redo" =>
       IF future = <<>>
       THEN last'.res = "fail" /\ UNCHANGED ProgVars
       ELSE /\ last'.res = "ok"
            /\ future' = SubSeq(future, 1, Len(future) - 1)
            /\ history' = Append(history, future[Len(future)])
            /\ SerializeOrg(Chart)' = <<future[Len(future)]>>]_vars

\* a redo succeeded with two different snapshots in future and left the
\* older one there
C15_Witness ==
  /\ last.op = "redo" /\ last.res = "ok"
  /\ Len(future) >= 1 /\ Len(history) >= 2
  /\ future[Len(future)] # history[Len(history)]
  /\ SerializeOrg(Chart) = <<history[Len(history)]>>

\* ------------------------------------------------------------ method contracts
\* C17: every call of addEmployee, editEmployee, removeEmployee or
\* moveSubtree returns success or failure: none raises an exception or runs
\* for ever.
C17_MutationsReturn ==
  last.op \in Mutations => last.res \in {"ok", "fail"}

\* C18: removeEmployee(id) with id the root, or id not in the store, returns
\* failure and changes neither the tree nor the stacks; no call leaves the
\* chart without its root member.
C18_RemoveRefused ==
  [][/\ (last'.op = "removeEmployee" /\ (last'.id = root \/ last'.id \notin Store))
          => last'.res = "fail" /\ UNCHANGED ProgVars
     /\ root # NULL => root' # NULL /\ root' \in Store']_vars

\* the removal of the root of a chart with several members was refused
C18_Witness ==
  /\ last.op = "removeEmployee" /\ last.res = "fail"
  /\ last.id = root /\ root # NULL
  /\ heap[root].reports # <<>>
  /\ last.mgr \in Store \ {root}

FieldsOf(e) == <<e.name, e.title, e.lob, e.division, e.dept, e.email>>

\* C19: addEmployee on a chart without a root fails and changes nothing;
\* on a chart with a root it succeeds and adds one member to the store, with
\* manager the given managerId when that is in the store and the root
\* otherwise, with level one more than that manager's, listed once in that
\* manager's reports and in nobody else's; fields, manager, level of every
\* member that was in the store stay as they were.
C19_AddContract ==
  [][last'.op = "addEmployee" =>
       IF root = NULL
       THEN last'.res = "fail" /\ UNCHANGED ProgVars
       ELSE LET m == IF last'.mgr \in Store THEN last'.mgr ELSE root
                new == nextId
            IN /\ last'.res = "ok"
               /\ new \notin Store
               /\ Store' = Store \cup {new}
               /\ Len(employees') = Len(employees) + 1
               /\ heap'[new].manager = m
               /\ heap'[new].level = heap'[m].level + 1
               /\ \A e \in Store :
                    /\ Count(heap'[e].reports, new) = (IF e = m THEN 1 ELSE 0)
                    /\ FieldsOf(heap'[e]) = FieldsOf(heap[e])
                    /\ heap'[e].manager = heap[e].manager
                    /\ heap'[e].level = heap[e].level]_vars

\* a member was added with a managerId that is no key of the store, and went
\* under the root next to an earlier report that has a report of its own
C19_Witness ==
  /\ last.op = "addEmployee" /\ last.res = "ok"
  /\ last.mgr = UnknownId
  /\ last.id \in Store /\ heap[last.id].manager = root
  /\ heap[last.id].level = 1
  /\ Len(heap[root].reports) >= 2
  /\ \E e \in Store : heap[e].level = 2

\* the value editEmployee leaves in a field whose old value is cur, for the
\* patch entry p, as C20 has it
Edited(cur, p) ==
  IF p # <<>> /\ Trim(p[1]) # "" THEN Trim(p[1]) ELSE cur

\* C20: editEmployee(id, patch) on an id of the store succeeds and leaves in
\* each of the six fields the trimmed string of the patch when the patch has
\* a string there that is not blank, and the old value otherwise; manager,
\* level and reports of every member, the keys of the store and the root
\* stay as they were; on an id that is not in the store it fails and
\* changes nothing.
C20_EditContract ==
  [][last'.op = "editEmployee" =>
       IF last'.id \in Store
       THEN LET id == last'.id
                p == last'.patch
            IN /\ last'.res = "ok"
               /\ heap'[id].name = Edited(heap[id].name, p.name)
               /\ heap'[id].title = Edited(heap[id].title, p.title)
               /\ heap'[id].lob = Edited(heap[id].lob, p.lob)
               /\ heap'[id].division = Edited(heap[id].division, p.division)
               /\ heap'[id].dept = Edited(heap[id].dept, p.dept)
               /\ heap'[id].email = Edited(heap[id].email, p.email)
               /\ employees' = employees /\ root' = root
               /\ \A e \in Store :
                    /\ heap'[e].manager = heap[e].manager
                    /\ heap'[e].level = heap[e].level
                    /\ heap'[e].reports = heap[e].reports
                    /\ e # id => heap'[e] = heap[e]
       ELSE last'.res = "fail" /\ UNCHANGED ProgVars]_vars

\* a member with a manager and a report was given a name with surrounding
\* blanks and a blank title: it has the trimmed name and its old title
C20_Witness ==
  /\ last.op = "editEmployee" /\ last.res = "ok"
  /\ last.patch.name = <<" Bob ">> /\ last.patch.title = <<" ">>
  /\ last.id \in Store
  /\ heap[last.id].name = "Bob" /\ heap[last.id].title = "Eng"
  /\ heap[last.id].manager # NULL /\ heap[last.id].reports # <<>>

\* ------------------------------------------------------------ file import claims
\* C16: an importFromJSON that returns failure leaves the employees map, the
\* root, the history and the serialized tree as they were before the call.
C16_FailedImportKeepsTree ==
  [][(last'.op = "importFromJSON" /\ last'.res = "fail")
       => /\ employees' = employees
          /\ root' = root
          /\ history' = history
          /\ SerializeOrg(Chart)' = SerializeOrg(Chart)]_vars

\* ------------------------------------------------------------ move claims
RECURSIVE SubtreeOf(_, _, _)
\* the nodes met walking the reports lists down from n
SubtreeOf(h, n, seen) ==
  IF n \in seen THEN {}
  ELSE {n} \cup UNION {SubtreeOf(h, h[n].reports[i], seen \cup {n}) :
                         i \in 1..Len(h[n].reports)}

RECURSIVE LevelsBelow(_, _, _, _)
\* n has the given level, and every node d steps down its reports lists has
\* that level plus d
LevelsBelow(h, n, level, seen) ==
  \/ n \in seen
  \/ /\ h[n].level = level
     /\ \A i \in 1..Len(h[n].reports) :
          LevelsBelow(h, h[n].reports[i], level + 1, seen \cup {n})

\* C21: a successful moveSubtree(id, newManagerId) leaves id with manager
\* newManagerId, out of its old manager's reports and once in the new
\* manager's, with level newManager.level + 1, and every node d steps below
\* id with level newManager.level + 1 + d; manager and level of every member
\* outside id's subtree stay as they were.
C21_MoveEffect ==
  [][(last'.op = "moveSubtree" /\ last'.res = "ok") =>
       LET id == last'.id
           nm == last'.mgr
           old == heap[id].manager
       IN /\ heap'[id].manager = nm
          /\ (old # NULL /\ old # nm) => Count(heap'[old].reports, id) = 0
          /\ Count(heap'[nm].reports, id) = 1
          /\ LevelsBelow(heap', id, heap[nm].level + 1, {})
          /\ \A e \in Store \ SubtreeOf(heap', id, {}) :
               /\ heap'[e].manager = heap[e].manager
               /\ heap'[e].level = heap[e].level]_vars

\* a member with a report was moved from the root to below another member:
\* it is two levels down and its report three
C21_Witness ==
  /\ last.op = "moveSubtree" /\ last.res = "ok"
  /\ last.id \in Store /\ last.mgr \in Store
  /\ heap[last.id].manager = last.mgr
  /\ heap[last.mgr].level = 1 /\ heap[last.id].level = 2
  /\ \E k \in Range(heap[last.id].reports) : heap[k].level = 3

\* ------------------------------------------------------------ snapshot claims
Committed == {"setRoot", "undo", "redo"} \cup Mutations

\* C22: after every completed setRoot, successful mutation, undo and redo,
\* the snapshot at the top of history is the serialization of the tree in
\* memory.
C22_TopIsCurrentTree ==
  (last.op \in Committed /\ last.res = "ok")
    => /\ history # <<>>
       /\ SerializeOrg(Chart) = <<history[Len(history)]>>

\* C23: each successful addEmployee, editEmployee, removeEmployee and
\* moveSubtree appends one snapshot to history, the serialization of the tree
\* as it was just before the call, and leaves future empty.
C23_SnapshotBeforeMutation ==
  [][(last'.op \in Mutations /\ last'.res = "ok")
       => /\ SerializeOrg(Chart) # <<>>
          /\ history' = Append(history, SerializeOrg(Chart)[1])
          /\ future' = <<>>]_vars

\* an edit that changed the tree was made right after an undo: the top of
\* history is the tree before the edit, not the tree after it
C23_Witness ==
  /\ last.op = "editEmployee" /\ last.res = "ok" /\ last.undoPhase = 2
  /\ preSer = <<history[Len(history)]>>
  /\ SerializeOrg(Chart) # preSer
  /\ future = <<>>

\* the ids of a document's nodes
DocIds(d) == {n.id : n \in DocNodes(d)}

\* C24: after a successful undo() or redo() the keys of the employees map
\* are exactly the ids of the snapshot now at the top of history, root is
\* that snapshot's top node, and the tree serializes to that snapshot.
C24_ReloadReplacesStore ==
  (last.op \in {"undo", "redo"} /\ last.res = "ok")
    => LET top == history[Len(history)]
       IN /\ Store = DocIds(top)
          /\ Len(employees) = Cardinality(Store)
          /\ root = top.id
          /\ SerializeOrg(Chart) = <<top>>

\* an undo went back to a snapshot with fewer members than the tree had
C24_Witness ==
  /\ last.op = "undo" /\ last.res = "ok"
  /\ preSer # <<>>
  /\ Cardinality(DocIds(preSer[1])) > Cardinality(Store)
  /\ Cardinality(Store) >= 2

\* ------------------------------------------------------------ import loop claims
\* C25: the while loop of importFromCSV ends: every pass but the last leaves
\* fewer records pending than it found, and there are at most as many passes
\* as records plus one; the records pending at the end are those the call
\* reports.
C25_LoopTerminates ==
  (Imported /\ last.res = "ok") =>
    LET t == alt[1].sizes
        passes == Len(t) - 1
    IN /\ passes >= 1
       /\ passes <= Len(alt[1].rows) + 1
       /\ t[1] = Len(alt[1].rows)
       /\ \A k \in 1..passes : t[k + 1] < t[k] \/ k = passes
       /\ t[Len(t)] = Len(alt[1].pending)

\* three records were imported, two of which name each other as manager:
\* the first pass added one, the second none, and two are left
C25_Witness ==
  /\ Imported /\ last.res = "ok"
  /\ alt[1].sizes = <<3, 2, 2>>
  /\ \E i, j \in 1..3 :
       /\ i # j
       /\ alt[1].rows[i].managerName = alt[1].rows[j].name
       /\ alt[1].rows[j].managerName = alt[1].rows[i].name

\* ------------------------------------------------------------ path claims
\* C26: for every member m of the store, getPath(m.id) returns, and what it
\* returns starts with the root, ends with m, has each element the manager
\* of the next, and has m.level + 1 elements.
C26_PathToRoot ==
  \A m \in Store :
    LET r == getPath(Chart, m)
        p == r.path
    IN /\ r.res = "ok"
       /\ Len(p) = heap[m].level + 1
       /\ p[1] = root
       /\ p[Len(p)] = m
       /\ \A k \in 1..(Len(p) - 1) : heap[p[k + 1]].manager = p[k]

C27_MoveRefused ==
  [][(/\ last'.op = "moveSubtree"
      /\ (last'.id \notin Store \/ last'.mgr \notin Store \/ last'.id = root))
       => last'.res = "fail" /\ UNCHANGED ProgVars]_vars

\* the move of a member other than the root to a manager that is not in the
\* store was refused, in a chart of three or more
C27_Witness ==
  /\ last.op = "moveSubtree" /\ last.res = "fail"
  /\ last.id \in Store \ {root} /\ last.mgr = UnknownId
  /\ heap[last.id].manager # root
  /\ Len(employees) >= 3

\* ------------------------------------------------------------ load claims
\* a node of the document whose level is not its parent's plus one
DepthMismatch(d) ==
  \E n \in DocNodes(d) :
    \E i \in 1..Len(n.reports) : n.reports[i].level # n.level + 1

\* C28: after a successful importFromJSON every node of the document is a
\* member of the store under the id the document gives it, with the level
\* the document gives it, whether or not that level is the node's depth.
C28_LoadKeepsIdsAndLevels ==
  (last.op = "importFromJSON" /\ last.res = "ok")
    => LET d == alt[1].doc[1]
       IN /\ Store = DocIds(d)
          /\ \A n \in DocNodes(d) : heap[n.id].level = n.level
          /\ root = d.id

\* a document whose top node has level 2 and whose children have level 1 was
\* loaded: the root has level 2 and its reports level 1
C28_Witness ==
  /\ last.op = "importFromJSON" /\ last.res = "ok"
  /\ DepthMismatch(alt[1].doc[1])
  /\ heap[root].level = 2
  /\ heap[root].reports # <<>>
  /\ \A k \in Range(heap[root].reports) : heap[k].level = 1

\* ------------------------------------------------------------ single-pass import claims
\* the rows with a name and a title, in row order
ValidRows(rows) == SelectSeq(rows, WellFormed)

\* C30: after the single-pass import, the rows with a name and a title have
\* each been added once, in row order, after the members that were there;
\* each is under a member that was in the store when its row came and has
\* the row's manager name (letter case ignored), when there is one, and
\* under the root otherwise.
C30_SinglePassAddsEveryRow ==
  Imported =>
    LET v == ValidRows(alt[1].rows)
        n0 == Len(alt[1].before)
    IN /\ last.res = "ok"
       /\ Len(employees) = n0 + Len(v)
       /\ SubSeq(employees, 1, n0) = alt[1].before
       /\ \A j \in 1..Len(v) :
            LET e == employees[n0 + j]
                cands == {k \in 1..(n0 + j - 1) :
                            ToLower(heap[employees[k]].name)
                              = ToLower(Trim(v[j].managerName))}
            IN /\ heap[e].name = Trim(v[j].name)
               /\ heap[e].title = Trim(v[j].title)
               /\ IF cands = {} THEN heap[e].manager = alt[1].root0
                  ELSE \E k \in cands : heap[e].manager = employees[k]
               /\ Count(heap[heap[e].manager].reports, e) = 1

\* ------------------------------------------------------------------ C33
\* C33: in every state reachable by mutations, undo and redo, the reports
\* lists and the manager back-pointers of the members of the store agree:
\* a member r is in the reports of a member m, exactly once, if and only if
\* the manager of r is m.
C33_ReportsMirrorManagers ==
  \A m \in Store, r \in Store :
    /\ heap[r].manager = m => Count(heap[m].reports, r) = 1
    /\ heap[r].manager # m => Count(heap[m].reports, r) = 0

\* after a redo, a member other than the root has two
\* reports
C33_Witness ==
  /\ last.op = "redo" /\ last.res = "ok" /\ last.undoPhase = 0
  /\ \E m \in Store, r \in Store, s \in Store :
       /\ r # s
       /\ heap[r].manager = m /\ heap[s].manager = m
       /\ heap[m].manager # NULL

\* ------------------------------------------------------------------ C34
\* C34: the store and the tree agree: every member of the employees map is
\* reachable from the root by following reports, and every node reachable
\* from the root is in the map, so the snapshot of the tree holds exactly
\* the members of the store.
C34_StoreIsTree ==
  root # NULL =>
    /\ Store = SubtreeOf(heap, root, {})
    /\ DocIds(PrepareForExport(Chart)) = Store

\* ------------------------------------------------------------------ C35
RECURSIVE Reverse(_)
Reverse(s) == IF s = <<>> THEN <<>> ELSE Append(Reverse(Tail(s)), Head(s))

\* the snapshots in the order they were taken: history, then future from its
\* most recently undone entry back
Timeline == history \o Reverse(future)

\* C35 as stated: no undo() or redo(), successful or failed, changes history
\* followed by the reversed future, and any undo() immediately followed by
\* redo() leaves both sequences as they were before the undo().
C35_UndoRedoMoveSnapshots_Original ==
  [][/\ last'.op \in {"undo", "redo"} => Timeline' = Timeline
     /\ (last.op = "undo" /\ last'.op = "redo")
          => (history' = last.stacks[1] /\ future' = last.stacks[2])]_vars

\* C35: no undo() or redo(), successful or failed, changes history followed
\* by the reversed future, and a successful undo() immediately followed by
\* redo() leaves both sequences as they were before the undo().
C35_UndoRedoMoveSnapshots ==
  [][/\ last'.op \in {"undo", "redo"} => Timeline' = Timeline
     /\ (last.op = "undo" /\ last.res = "ok" /\ last'.op = "redo")
          => (last'.res = "ok" /\ history' = last.stacks[1]
                               /\ future' = last.stacks[2])]_vars

\* a successful redo from the tree of the snapshot now second from the top
\* of history, with an earlier undone snapshot still in future
C35_Witness ==
  /\ last.op = "redo" /\ last.res = "ok" /\ last.undoPhase = 0
  /\ Len(future) >= 1 /\ Len(history) >= 3
  /\ preSer = <<history[Len(history) - 1]>>

\* ------------------------------------------------------------------ C36
\* C36: a mutation that returns false (addEmployee on a chart without a
\* root, editEmployee or removeEmployee of an unknown id, removeEmployee of
\* the root, moveSubtree refused for an unknown id, the root, the employee
\* itself or one of its descendants) pushes no snapshot and does not clear
\* the redo stack: history and future are as they were before the call.
C36_FailedMutationKeepsStacks ==
  [][(last'.op \in Mutations /\ last'.res = "fail")
       => (history' = history /\ future' = future)]_vars

\* a move under one of the employee's own descendants was refused while an
\* undone snapshot was waiting in future
C36_Witness ==
  /\ last.op = "moveSubtree" /\ last.res = "fail"
  /\ last.id \in Store /\ last.mgr \in Store
  /\ last.id # root /\ last.id # last.mgr
  /\ future # <<>>

C38_MoveVariantsAgree ==
  \A e \in ObjAnyId, m \in ObjAnyId :
    moveSubtreeById(Chart, e, m) = moveSubtreeByRef(Chart, e, m)

\* after an undo or redo rebuilt the objects, some member's reference is not
\* its id, a move under a report is refused by both variants and another
\* move is accepted by both
C38_Witness ==
  /\ last.op \in {"undo", "redo"} /\ last.res = "ok"
  /\ \E id \in DOMAIN employees : employees[id] # id
  /\ \E e \in DOMAIN employees, m \in DOMAIN employees :
       /\ e # m /\ employees[e] # root
       /\ moveSubtreeById(Chart, e, m).res = "fail"
       /\ moveSubtreeByRef(Chart, e, m).res = "fail"
  /\ \E e \in DOMAIN employees, m \in DOMAIN employees :
       /\ moveSubtreeById(Chart, e, m).res = "ok"
       /\ moveSubtreeByRef(Chart, e, m).res = "ok"

\* ------------------------------------------------------------------ C39
\* C39: in the name-keyed variant every key of the employees map is the
\* name of the employee it maps to, after any sequence of setRoot,
\* addEmployee, editEmployee and removeEmployee, an edit whose new name is
\* empty or blank included.
C39_KeyIsName ==
  \A i \in 1..Len(employees) : heap[employees[i].ref].name = employees[i].key

\* ------------------------------------------------------------------ C32
\* C32: in the name-keyed variant, editEmployee(oldName, {name: n}) with n
\* different from oldName and n already a key of the map is rejected with an
\* error before any change: the map, the employee's fields and the reports
\* lists are as before.
C32_DuplicateRenameRejected ==
  \A oldName \in NkKeys, n \in NkKeys :
    n # oldName =>
      LET r == NkEditEmployee(Chart, oldName, [NoPatch EXCEPT !.name = <<n>>])
      IN r.res = "throw" /\ r.c = Chart

\* ------------------------------------------------------------------ C31
\* C31: in the name-keyed variant, when importFromCSV returns false (parse
\* error, empty file, or no root employee among the rows) the employees map
\* and the root are the same as before the call, in replace mode as well as
\* in merge mode.
C31_FailedImportKeepsChart ==
  [][(last'.op = "importFromCSV" /\ last'.res = "fail")
       => (employees' = employees /\ root' = root)]_vars

====
